---- MODULE Spec2Model ----
(***************************************************************************)
(* Model of the in-memory messaging service of the vector protocol         *)
(* (MemoryMessagingService): one shared event bus, correlated request /    *)
(* reply with an inbox, one-shot waiters with a timeout, and subscribers.  *)
(***************************************************************************)
EXTENDS Integers, Sequences, FiniteSets, TLC

\* ------------------------------------------------------------------ bounds
\* sendProtocolMessage calls made in one behaviour of Spec
MaxCalls == 1
\* sendProtocolMessage calls made in one behaviour of SpecConcurrent
MaxConcurrentCalls == 2
\* sendProtocolMessage calls made in one behaviour of SpecCooperative
MaxCooperativeCalls == 2
\* onReceiveProtocolMessage subscriptions made in one behaviour
MaxSubs == 1

\* ------------------------------------------------------------ value spaces
Identifiers == {"alice", "bob"}
Channels == {"ch1", "ch2"}
Errors == {"StaleUpdate", "BadSignature"}
\* numRetries = 0, the default of sendProtocolMessage
DefaultNumRetries == 0
RetryCounts == {DefaultNumRetries, 1}

\* JavaScript undefined, one per type
NoId == "undefined"
NoError == "undefined"
NoInbox == -1
NoUpdate == [channelAddress |-> "undefined", fromIdentifier |-> NoId, toIdentifier |-> NoId]

\* ChannelUpdate, reduced to the fields the messaging service reads
Updates ==
    {u \in [channelAddress : Channels, fromIdentifier : Identifiers, toIdentifier : Identifiers] :
        u.fromIdentifier # u.toIdentifier}

\* an inbox value that no call of the behaviour generated
ForeignInbox == 0

\* MessagingError.reasons.Timeout
MessagingTimeout == "Request timed out"

\* the event type of the bus
Message(to, from, inbox, update, previousUpdate, error, sentBy) ==
    [to |-> to, from |-> from, inbox |-> inbox,
     data |-> [update |-> update, previousUpdate |-> previousUpdate, error |-> error],
     sentBy |-> sentBy]

NoMessage == Message(NoId, NoId, NoInbox, NoUpdate, NoUpdate, NoError, NoId)

\* ------------------------------------------------------------------ Result
ResultOk(value) ==
    [isError |-> FALSE, value |-> value, error |-> NoError]

\* the values `if (error)` takes for no error: undefined, null, "", 0, false
JsNull == "null"
FalsyValues == {NoError, JsNull, "", "0", "false"}

ResultFail(error) ==
    IF error \notin FalsyValues
    THEN [isError |-> TRUE, value |-> [update |-> NoUpdate, previousUpdate |-> NoUpdate], error |-> error]
    ELSE [isError |-> FALSE, value |-> [update |-> NoUpdate, previousUpdate |-> NoUpdate], error |-> NoError]

NoResult == [isError |-> FALSE, value |-> [update |-> NoUpdate, previousUpdate |-> NoUpdate], error |-> NoError]

\* no call of the signature functions, no channel under reconciliation
NoSigning == [op |-> "none"]
NoDeposit == [op |-> "none"]
\* no call of the fee functions, of create or resolve, of Result; no gRPC server
NoFee == [op |-> "none"]
NoTransfer == [op |-> "none"]
NoResultCall == [op |-> "none"]
NoGrpc == [op |-> "none"]

\* ------------------------------------------------------------------- state
VARIABLES
    calls,      \* the sendProtocolMessage calls made so far, in call order
    handlers,   \* the handlers attached to evt, in attachment order
    posted,     \* the messages posted on evt by the last operation, in order
    invoked,    \* the subscriber callbacks run by the last operation, in order
    todo,       \* requests a responder took and has not answered yet
    signing,    \* the channel-signature functions: their arguments and what they returned
    deposit,    \* a channel's balance for one asset, and the last reconcileDeposit on it
    feeCall,    \* the router's fee functions: their arguments and what they returned
    transferCall, \* create and resolve of a transfer: their arguments and what they returned
    resultCall, \* a Result under construction and what its accessors returned
    grpc        \* the gRPC server: its nodes, its streams and the replies it gave

vars == <<calls, handlers, posted, invoked, todo, signing, deposit, feeCall, transferCall, resultCall, grpc>>

\* the bus as one value, threaded through a post and its nested posts
Bus == [calls |-> calls, handlers |-> handlers, posted |-> <<>>, invoked |-> <<>>, todo |-> todo]

RECURSIVE Without(_, _)
Without(s, h) ==
    IF s = <<>> THEN <<>>
    ELSE IF Head(s) = h THEN Without(Tail(s), h)
    ELSE <<Head(s)>> \o Without(Tail(s), h)

Attached(hs, h) == \E i \in 1..Len(hs) : hs[i] = h

Waiter(c) == [kind |-> "waiter", call |-> c, sid |-> 0, id |-> NoId, mode |-> "none"]
Subscriber(sid, id, mode) == [kind |-> "sub", call |-> 0, sid |-> sid, id |-> id, mode |-> mode]

NumSubs(hs) == Cardinality({i \in 1..Len(hs) : hs[i].kind = "sub"})

\* ---------------------------------------------------- sendProtocolMessage
\* the filter of the pipe: the parameter inbox shadows the generated inbox,
\* so the third conjunct compares the message's inbox with itself
WaiterFilter(channelUpdate, generatedInbox, m) ==
    /\ m.from = channelUpdate.toIdentifier
    /\ m.to = channelUpdate.fromIdentifier
    /\ m.inbox = m.inbox
    /\ m.sentBy = channelUpdate.toIdentifier

SendResultIgnoringError(res) ==
    ResultOk([update |-> res.data.update, previousUpdate |-> res.data.previousUpdate])

\* what the call returns once responsePromise resolved with res
SendResult(res) ==
    IF res.data.error # NoError
    THEN ResultFail(res.data.error)
    ELSE ResultOk([update |-> res.data.update, previousUpdate |-> res.data.previousUpdate])

RequestMessage(channelUpdate, previousUpdate, inbox) ==
    Message(channelUpdate.toIdentifier, channelUpdate.fromIdentifier, inbox,
            channelUpdate, previousUpdate, NoError, channelUpdate.fromIdentifier)

\* ----------------------------------------------- respondToProtocolMessage
ResponseMessage(sentBy, channelUpdate, inbox, previousUpdate) ==
    Message(channelUpdate.fromIdentifier, channelUpdate.toIdentifier, inbox,
            channelUpdate, previousUpdate, NoError, sentBy)

\* ----------------------------------------------- respondWithProtocolError
ErrorMessageOutsideData(updateFromIdentifier, updateToIdentifier, inbox, error) ==
    Message(updateFromIdentifier, updateToIdentifier, inbox,
            NoUpdate, NoUpdate, NoError, updateToIdentifier)

ErrorMessage(updateFromIdentifier, updateToIdentifier, inbox, error) ==
    Message(updateFromIdentifier, updateToIdentifier, inbox,
            NoUpdate, NoUpdate, error, updateToIdentifier)

\* ----------------------------------------------- onReceiveProtocolMessage
SubscriberFilterOnFrom(myPublicIdentifier, m) == m.from = myPublicIdentifier

SubscriberFilter(myPublicIdentifier, m) == m.to = myPublicIdentifier

\* the arguments the attached handler passes to the callback
CallbackArgs(sid, k, m) ==
    [sid |-> sid, msg |-> k,
     result |-> ResultOk([update |-> m.data.update, previousUpdate |-> m.data.previousUpdate]),
     from |-> m.from, inbox |-> m.inbox]

\* a responder answers the requests addressed to it, and nothing else
IsRequestFor(id, m) ==
    /\ m.data.error = NoError
    /\ m.data.update # NoUpdate
    /\ m.data.update.toIdentifier = id

\* ------------------------------------------------------------------ evt.post
\* a waiter whose filter matches resolves its call with the message and detaches
Resolve(bus, c, m) ==
    [bus EXCEPT !.calls[c] = [@ EXCEPT !.status = "returned", !.res = m, !.result = SendResult(m)],
                !.handlers = Without(@, Waiter(c))]

RECURSIVE Post(_, _, _)
RECURSIVE Dispatch(_, _, _, _)

\* post(m): m goes, synchronously, to every handler attached when the post
\* began and still attached when its turn comes
Post(bus, op, m) ==
    LET b1 == [bus EXCEPT !.posted = Append(@, [op |-> op, msg |-> m])]
    IN  Dispatch(b1, bus.handlers, Len(b1.posted), 1)

Dispatch(bus, hs, k, i) ==
    IF i > Len(hs) THEN bus
    ELSE
        LET h == hs[i]
            m == bus.posted[k].msg
            next ==
                IF h.kind = "waiter"
                THEN IF /\ Attached(bus.handlers, h)
                        /\ WaiterFilter(bus.calls[h.call].update, bus.calls[h.call].inbox, m)
                     THEN Resolve(bus, h.call, m)
                     ELSE bus
                ELSE IF SubscriberFilter(h.id, m)
                     THEN LET b1 == [bus EXCEPT !.invoked = Append(@, CallbackArgs(h.sid, k, m))]
                          IN  IF ~IsRequestFor(h.id, m) \/ h.mode = "plain" THEN b1
                              ELSE IF h.mode = "sync"
                              THEN Post(b1, "respond",
                                        ResponseMessage(h.id, m.data.update, m.inbox, m.data.previousUpdate))
                              ELSE [b1 EXCEPT !.todo = @ \cup
                                        {[id |-> h.id, update |-> m.data.update, inbox |-> m.inbox,
                                          previousUpdate |-> m.data.previousUpdate]}]
                     ELSE bus
        IN  Dispatch(next, hs, k, i + 1)

Commit(bus) ==
    /\ calls' = bus.calls
    /\ handlers' = bus.handlers
    /\ posted' = bus.posted
    /\ invoked' = bus.invoked
    /\ todo' = bus.todo
    /\ UNCHANGED <<signing, deposit, feeCall, transferCall, resultCall, grpc>>

\* ------------------------------------------------------------------ actions
Init ==
    /\ calls = <<>>
    /\ handlers = <<>>
    /\ posted = <<>>
    /\ invoked = <<>>
    /\ todo = {}
    /\ signing = NoSigning
    /\ deposit = NoDeposit
    /\ feeCall = NoFee
    /\ transferCall = NoTransfer
    /\ resultCall = NoResultCall
    /\ grpc = NoGrpc

CallIds == 1..Len(calls)
Pending(c) == calls[c].status = "pending"
Returned(c) == calls[c].status = "returned"
Subscribers == {handlers[i] : i \in {j \in 1..Len(handlers) : handlers[j].kind = "sub"}}

\* JavaScript runs one synchronous turn at a time: posted and invoked hold the
\* trace of the turn in progress, and are empty between turns
Idle == posted = <<>> /\ invoked = <<>>

\* getRandomBytes32(): a value no earlier call generated
FreshInbox == Len(calls) + 1

NewCall(channelUpdate, previousUpdate, numRetries, inbox) ==
    [update |-> channelUpdate, previousUpdate |-> previousUpdate, numRetries |-> numRetries,
     inbox |-> inbox, status |-> "pending", res |-> NoMessage, result |-> NoResult,
     timedOut |-> FALSE, thrown |-> "none", published |-> 1]

\* sendProtocolMessage up to its await: generate the inbox, attach the
\* waiter, post the request (once, whatever numRetries is)
SendProtocolMessage(channelUpdate, previousUpdate, numRetries) ==
    /\ Idle
    /\ LET inbox == FreshInbox
           c == Len(calls) + 1
           b0 == [Bus EXCEPT !.calls = Append(@, NewCall(channelUpdate, previousUpdate, numRetries, inbox)),
                             !.handlers = Append(@, Waiter(c))]
       IN  Commit(Post(b0, "send", RequestMessage(channelUpdate, previousUpdate, inbox)))

\* waitFor(timeout) rejects once the timeout elapsed with no matching message;
\* nothing catches the rejection, so the call rejects with it
WaitForTimeout(c) ==
    /\ Idle
    /\ c \in CallIds
    /\ Pending(c)
    /\ calls' = [calls EXCEPT ![c] = [@ EXCEPT !.status = "rejected", !.timedOut = TRUE, !.thrown = "EvtError.Timeout"]]
    /\ handlers' = Without(handlers, Waiter(c))
    /\ UNCHANGED <<posted, invoked, todo, signing, deposit, feeCall, transferCall, resultCall, grpc>>

RespondToProtocolMessage(sentBy, channelUpdate, inbox, previousUpdate) ==
    /\ Idle
    /\ Commit(Post(Bus, "respond", ResponseMessage(sentBy, channelUpdate, inbox, previousUpdate)))

RespondWithProtocolError(updateFromIdentifier, updateToIdentifier, inbox, error) ==
    /\ Idle
    /\ Commit(Post(Bus, "error", ErrorMessage(updateFromIdentifier, updateToIdentifier, inbox, error)))

OnReceiveProtocolMessage(myPublicIdentifier, mode) ==
    /\ Idle
    /\ handlers' = Append(handlers, Subscriber(NumSubs(handlers) + 1, myPublicIdentifier, mode))
    /\ UNCHANGED <<calls, posted, invoked, todo, signing, deposit, feeCall, transferCall, resultCall, grpc>>

\* a responder's callback answering, in a later turn, a request it took
ResponderAnswers(t) ==
    /\ Idle
    /\ t \in todo
    /\ Commit(Post([Bus EXCEPT !.todo = @ \ {t}], "respond",
                   ResponseMessage(t.id, t.update, t.inbox, t.previousUpdate)))

\* the synchronous turn ends and control returns to the event loop
EndOfTurn ==
    /\ ~Idle
    /\ posted' = <<>>
    /\ invoked' = <<>>
    /\ UNCHANGED <<calls, handlers, todo, signing, deposit, feeCall, transferCall, resultCall, grpc>>

\* the inboxes a responder can name
Inboxes == {ForeignInbox} \cup {calls[c].inbox : c \in CallIds}

SendUpTo(max, retryCounts) ==
    /\ Len(calls) < max
    /\ \E u \in Updates, n \in retryCounts : SendProtocolMessage(u, NoUpdate, n)

Send == SendUpTo(MaxCalls, {DefaultNumRetries})
Respond == \E s \in Identifiers, u \in Updates, i \in Inboxes : RespondToProtocolMessage(s, u, i, NoUpdate)
RespondError ==
    \E f \in Identifiers, t \in Identifiers, i \in Inboxes, e \in Errors :
        f # t /\ RespondWithProtocolError(f, t, i, e)
Timeout == \E c \in CallIds : WaitForTimeout(c)
Subscribe ==
    /\ NumSubs(handlers) < MaxSubs
    /\ \E id \in Identifiers : OnReceiveProtocolMessage(id, "plain")

Next == Send \/ Respond \/ RespondError \/ Timeout \/ Subscribe \/ EndOfTurn

Spec == Init /\ [][Next]_vars

\* the same service with several calls in one behaviour, any numRetries, and
\* no subscriber
SendConcurrent == SendUpTo(MaxConcurrentCalls, RetryCounts)

NextConcurrent == SendConcurrent \/ Respond \/ RespondError \/ Timeout \/ EndOfTurn

SpecConcurrent == Init /\ [][NextConcurrent]_vars

\* the service with cooperative peers: every identifier has a responder
\* subscribed before any request is sent, a channel has one round in flight at
\* a time, replies come from responders only, and no waiter times out
Responders == {h.id : h \in Subscribers}

SubscribeResponder ==
    \E id \in Identifiers \ Responders, mode \in {"sync", "async"} : OnReceiveProtocolMessage(id, mode)

SendCooperative ==
    /\ Responders = Identifiers
    /\ Len(calls) < MaxCooperativeCalls
    /\ \E u \in Updates :
          /\ \A c \in CallIds : Pending(c) => calls[c].update.channelAddress # u.channelAddress
          /\ SendProtocolMessage(u, NoUpdate, DefaultNumRetries)

Answer == \E t \in todo : ResponderAnswers(t)

NextCooperative == SubscribeResponder \/ SendCooperative \/ Answer \/ EndOfTurn

SpecCooperative == Init /\ [][NextCooperative]_vars

\* ------------------------------------------------------- channel signatures
\* the longest updateSignatures array drawn
MaxSignatureSlots == 2

Addresses == {"0xAlice", "0xBob", "0xCarol"}
\* slot 0 is alice, slot 1 is bob
Participants == <<"0xAlice", "0xBob">>
ChannelNonces == {1, 2}
RequiredSigs == {1, 2}

\* a full channel state: the core fields, then publicIdentifiers,
\* networkContext and latestUpdate
FullChannelState(nonce) ==
    [channelAddress |-> "ch1", participants |-> Participants, timeout |-> "86400",
     balances |-> <<>>, lockedBalance |-> <<>>, assetIds |-> <<>>, nonce |-> nonce,
     latestDepositNonce |-> 0, merkleRoot |-> "0x00",
     publicIdentifiers |-> <<"alice", "bob">>,
     networkContext |-> [chainId |-> 1337, adjudicatorAddress |-> "0xAdjudicator"],
     latestUpdate |-> [type |-> "setup", nonce |-> nonce]]

FullChannelStates == {FullChannelState(n) : n \in ChannelNonces}

\* the fields the canonical encoding of a commitment reads from its state
CoreChannelStateFields ==
    {"channelAddress", "participants", "timeout", "balances", "lockedBalance", "assetIds",
     "nonce", "latestDepositNonce", "merkleRoot"}

\* hashChannelCommitment: the digest of the canonical encoding of chainId, the
\* core fields of state and adjudicatorAddress; injective on them, and blind to
\* the signatures and to any other field
HashChannelCommitment(commitment) ==
    [chainId |-> commitment.chainId,
     state |-> [f \in CoreChannelStateFields |-> commitment.state[f]],
     adjudicatorAddress |-> commitment.adjudicatorAddress]

\* an entry of a signature array: undefined, the empty string, or a signature
Undefined == [kind |-> "undefined"]
EmptyString == [kind |-> "empty"]
\* signer.signMessage(digest) for the signer with this address
SignMessage(address, digest) == [kind |-> "signature", signer |-> address, digest |-> digest]
\* !!x
Truthy(x) == x.kind = "signature"

\* the address a signature recovers to against any digest but its own
UnrelatedAddress == "0xUnrelated"

\* recoverAddressFromChannelMessage
RecoverAddressFromChannelMessage(digest, sig) ==
    IF sig.digest = digest THEN sig.signer ELSE UnrelatedAddress

\* const { publicIdentifiers, networkContext, ...core } = state
Core(state) == [f \in DOMAIN state \ {"publicIdentifiers", "networkContext"} |-> state[f]]

Unsigned(state) ==
    [chainId |-> state.networkContext.chainId, state |-> Core(state),
     adjudicatorAddress |-> state.networkContext.adjudicatorAddress]

WithSignatures(unsigned, signatures) ==
    [chainId |-> unsigned.chainId, state |-> unsigned.state,
     adjudicatorAddress |-> unsigned.adjudicatorAddress, signatures |-> signatures]

\* a filter that keeps the empty string
FilteredSigsKeepingEmpty(updateSignatures) ==
    SelectSeq(updateSignatures, LAMBDA x : x.kind # "undefined")

\* updateSignatures.filter((x) => !!x)
FilteredSigs(updateSignatures) == SelectSeq(updateSignatures, Truthy)

\* participants.findIndex((p) => p === address), 0-based, -1 when none is
FindIndex(participants, address) ==
    IF \E i \in 1..Len(participants) : participants[i] = address
    THEN (CHOOSE i \in 1..Len(participants) :
              /\ participants[i] = address
              /\ \A j \in 1..(i - 1) : participants[j] # address) - 1
    ELSE -1

\* generateSignedChannelCommitment signs unless two signatures are present
SignsCommitment(updateSignatures) == Len(FilteredSigs(updateSignatures)) # 2

\* the commitment both functions hash: the unsigned one with signatures: []
SigningPreimage(unsigned) == WithSignatures(unsigned, <<>>)

\* the signer's signature always first
SignedSlotsSignerFirst(idx, sig, counterpartySignature) == <<sig, counterpartySignature>>

\* signatures: idx === 0 ? [sig, counterpartySignature] : [counterpartySignature, sig]
SignedSlots(idx, sig, counterpartySignature) ==
    IF idx = 0 THEN <<sig, counterpartySignature>> ELSE <<counterpartySignature, sig>>

GenerateSignedChannelCommitment(newState, signerAddress, updateSignatures) ==
    LET unsigned == Unsigned(newState)
        filteredSigs == FilteredSigs(updateSignatures)
    IN  IF Len(filteredSigs) = 2
        THEN WithSignatures(unsigned, updateSignatures)
        ELSE LET counterpartySignature == IF filteredSigs = <<>> THEN Undefined ELSE Head(filteredSigs)
                 sig == SignMessage(signerAddress, HashChannelCommitment(SigningPreimage(unsigned)))
                 idx == FindIndex(newState.participants, signerAddress)
             IN  WithSignatures(unsigned, SignedSlots(idx, sig, counterpartySignature))

\* what validateChannelUpdateSignatures returns: undefined, or one of its two
\* messages with the two numbers in it
NoRejection == [message |-> "undefined", count |-> 0, requiredSigs |-> 0]
OnlyPresent(present, requiredSigs) ==
    [message |-> "signatures present", count |-> present, requiredSigs |-> requiredSigs]
OnlyValid(valid, requiredSigs) ==
    [message |-> "are valid signatures", count |-> valid, requiredSigs |-> requiredSigs]

\* state.participants[idx], idx 1-based here
ParticipantAt(state, idx) ==
    IF idx \in 1..Len(state.participants) THEN state.participants[idx] ELSE "undefined"

\* a callback that takes a signature of either participant in either slot
VerifiedSigAnySlot(state, hash, sigToVerify, idx) ==
    IF ~Truthy(sigToVerify) THEN Undefined
    ELSE IF \E i \in 1..Len(state.participants) :
                RecoverAddressFromChannelMessage(hash, sigToVerify) = state.participants[i]
         THEN sigToVerify
         ELSE Undefined

\* the map callback: the signature when it recovers to the participant of its
\* slot, undefined otherwise
VerifiedSig(state, hash, sigToVerify, idx) ==
    IF ~Truthy(sigToVerify) THEN Undefined
    ELSE IF RecoverAddressFromChannelMessage(hash, sigToVerify) = ParticipantAt(state, idx)
         THEN sigToVerify
         ELSE Undefined

ValidateChannelUpdateSignatures(state, updateSignatures, requiredSigs) ==
    LET present == Len(FilteredSigs(updateSignatures))
    IN  IF present < requiredSigs THEN OnlyPresent(present, requiredSigs)
        ELSE LET hash == HashChannelCommitment(SigningPreimage(Unsigned(state)))
                 verified == [idx \in 1..Len(updateSignatures) |->
                                  VerifiedSig(state, hash, updateSignatures[idx], idx)]
                 valid == FilteredSigs(verified)
             IN  IF Len(valid) < requiredSigs THEN OnlyValid(Len(valid), requiredSigs)
                 ELSE NoRejection

\* the arguments drawn for the two functions
SignatureValues ==
    {Undefined, EmptyString} \cup
    {SignMessage(a, HashChannelCommitment(SigningPreimage(Unsigned(st)))) :
        a \in Addresses, st \in FullChannelStates}

RECURSIVE SignatureArrays(_)
SignatureArrays(n) ==
    IF n = 0 THEN {<<>>}
    ELSE SignatureArrays(n - 1) \cup
         {Append(a, x) : a \in {b \in SignatureArrays(n - 1) : Len(b) = n - 1}, x \in SignatureValues}

NoCommitment == [chainId |-> 0, state |-> <<>>, adjudicatorAddress |-> "undefined", signatures |-> <<>>]

InitSignatures ==
    /\ calls = <<>>
    /\ handlers = <<>>
    /\ posted = <<>>
    /\ invoked = <<>>
    /\ todo = {}
    /\ deposit = NoDeposit
    /\ feeCall = NoFee
    /\ transferCall = NoTransfer
    /\ resultCall = NoResultCall
    /\ grpc = NoGrpc
    /\ signing \in [op : {"args"}, state : FullChannelStates, signer : Addresses,
                    updateSignatures : SignatureArrays(MaxSignatureSlots),
                    requiredSigs : RequiredSigs,
                    error : {NoRejection}, commitment : {NoCommitment}]

\* validateChannelUpdateSignatures(state, updateSignatures, requiredSigs)
Validate ==
    /\ signing.op = "args"
    /\ signing' = [signing EXCEPT !.op = "validated",
                      !.error = ValidateChannelUpdateSignatures(signing.state, signing.updateSignatures,
                                                                signing.requiredSigs)]
    /\ UNCHANGED <<calls, handlers, posted, invoked, todo, deposit, feeCall, transferCall, resultCall, grpc>>

\* generateSignedChannelCommitment(state, signer, updateSignatures)
Generate ==
    /\ signing.op = "args"
    /\ signing' = [signing EXCEPT !.op = "generated",
                      !.commitment = GenerateSignedChannelCommitment(signing.state, signing.signer,
                                                                     signing.updateSignatures)]
    /\ UNCHANGED <<calls, handlers, posted, invoked, todo, deposit, feeCall, transferCall, resultCall, grpc>>

\* validateChannelUpdateSignatures on the signatures of the commitment that
\* generateSignedChannelCommitment returned
ValidateGenerated ==
    /\ signing.op = "generated"
    /\ signing' = [signing EXCEPT !.op = "revalidated",
                      !.error = ValidateChannelUpdateSignatures(signing.state, signing.commitment.signatures,
                                                                signing.requiredSigs)]
    /\ UNCHANGED <<calls, handlers, posted, invoked, todo, deposit, feeCall, transferCall, resultCall, grpc>>

NextSignatures == Validate \/ Generate \/ ValidateGenerated

SpecSignatures == InitSignatures /\ [][NextSignatures]_vars

\* ----------------------------------------------------- deposit reconciliation
\* the largest values the chain reader returns, and the number of calls
MaxOnchainBalance == 2
MaxDepositAmount == 1
MaxDepositNonce == 2
MaxReconciliations == 2

\* a decimal string: its sign and its digits, most significant first
RECURSIVE DigitsOf(_)
DigitsOf(n) == IF n < 10 THEN <<n>> ELSE Append(DigitsOf(n \div 10), n % 10)

RECURSIVE ValueOf(_)
ValueOf(digits) ==
    IF digits = <<>> THEN 0
    ELSE 10 * ValueOf(SubSeq(digits, 1, Len(digits) - 1)) + digits[Len(digits)]

\* BigNumber.toString()
BigNumberToString(n) ==
    IF n < 0 THEN [negative |-> TRUE, digits |-> DigitsOf(-n)]
    ELSE [negative |-> FALSE, digits |-> DigitsOf(n)]

\* BigNumber.from(decimal string)
BigNumberFrom(str) == IF str.negative THEN -ValueOf(str.digits) ELSE ValueOf(str.digits)

\* what the channel holds for the asset before the first call
InitialAmounts == {0, 9}
CounterpartyAmounts == {0, 1}
LockedBalances == {0, 1}

ChainError == "ChainError"
\* the errors a chain read can fail with
ChainErrors == {ChainError, "ProviderNotFound"}
\* a read reconcileDeposit did not get to
NotRead == [isError |-> FALSE, value |-> "not read", error |-> NoError]

\* what the chain reader can return
OnchainBalanceResults ==
    {ResultOk(b) : b \in 0..MaxOnchainBalance} \cup {ResultFail(e) : e \in ChainErrors}
LatestDepositResults ==
    {ResultOk([amount |-> a, nonce |-> n]) : a \in 0..MaxDepositAmount, n \in 0..MaxDepositNonce}
    \cup {ResultFail(e) : e \in ChainErrors}

\* participant 0's balance taken from the nonce of the chain's record alone
BalanceAWheneverNonceDiffers(latestDepositA, latestDepositNonce, initialBalance) ==
    IF latestDepositA.nonce # latestDepositNonce
    THEN latestDepositA.amount + BigNumberFrom(initialBalance.amount[1])
    ELSE BigNumberFrom(initialBalance.amount[1])

\* participant 0's balance with the deposit added also when its nonce equals
\* the state's
BalanceAFromNonceOnwards(latestDepositA, latestDepositNonce, initialBalance) ==
    IF latestDepositA.nonce >= latestDepositNonce
    THEN latestDepositA.amount + BigNumberFrom(initialBalance.amount[1])
    ELSE BigNumberFrom(initialBalance.amount[1])

\* balanceA: the deposit is added when its nonce is greater than the state's
BalanceA(latestDepositA, latestDepositNonce, initialBalance) ==
    IF latestDepositA.nonce > latestDepositNonce
    THEN latestDepositA.amount + BigNumberFrom(initialBalance.amount[1])
    ELSE BigNumberFrom(initialBalance.amount[1])

\* participant 1's balance without the locked balance taken off
BalanceBIgnoringLocked(onchainBalance, balanceA, lockedBalance) == onchainBalance - balanceA

\* BigNumber.from(onchainBalance).sub(balanceA.add(lockedBalance))
BalanceB(onchainBalance, balanceA, lockedBalance) ==
    onchainBalance - (balanceA + BigNumberFrom(lockedBalance))

\* a reconcileDeposit that reports every failed read as one error of its own
ReconcileDepositWrappingError(initialBalance, latestDepositNonce, lockedBalance, balanceRes, latestDepositARes) ==
    IF balanceRes.isError \/ latestDepositARes.isError THEN ResultFail(ChainError)
    ELSE LET balanceA == BalanceA(latestDepositARes.value, latestDepositNonce, initialBalance)
         IN  ResultOk([balance |-> [initialBalance EXCEPT
                                       !.amount = <<BigNumberToString(balanceA),
                                                    BigNumberToString(BalanceB(balanceRes.value, balanceA,
                                                                               lockedBalance))>>],
                       latestDepositNonce |-> latestDepositARes.value.nonce])

ReconcileDeposit(initialBalance, latestDepositNonce, lockedBalance, balanceRes, latestDepositARes) ==
    IF balanceRes.isError THEN ResultFail(balanceRes.error)
    ELSE IF latestDepositARes.isError THEN ResultFail(latestDepositARes.error)
    ELSE LET onchainBalance == balanceRes.value
             latestDepositA == latestDepositARes.value
             balanceA == BalanceA(latestDepositA, latestDepositNonce, initialBalance)
             balance == [initialBalance EXCEPT
                            !.amount = <<BigNumberToString(balanceA),
                                         BigNumberToString(BalanceB(onchainBalance, balanceA, lockedBalance))>>]
         IN  ResultOk([balance |-> balance, latestDepositNonce |-> latestDepositA.nonce])

InitDeposit ==
    /\ calls = <<>>
    /\ handlers = <<>>
    /\ posted = <<>>
    /\ invoked = <<>>
    /\ todo = {}
    /\ signing = NoSigning
    /\ feeCall = NoFee
    /\ transferCall = NoTransfer
    /\ resultCall = NoResultCall
    /\ grpc = NoGrpc
    /\ \E a \in InitialAmounts, b \in CounterpartyAmounts, n \in 0..MaxDepositNonce, l \in LockedBalances :
          deposit = [op |-> "channel", count |-> 0,
                     balance |-> [to |-> Participants,
                                  amount |-> <<BigNumberToString(a), BigNumberToString(b)>>],
                     latestDepositNonce |-> n,
                     lockedBalance |-> BigNumberToString(l),
                     call |-> [initialBalance |-> [to |-> Participants,
                                                   amount |-> <<BigNumberToString(a), BigNumberToString(b)>>],
                               latestDepositNonce |-> n, balanceRes |-> NotRead,
                               latestDepositARes |-> NotRead],
                     result |-> NoResult]

\* reconcileDeposit on the channel's balance, with what the chain reader
\* returns for its two reads; the second read is made only if the first succeeds
Reconcile(balanceRes, latestDepositARes) ==
    /\ deposit.op # "none"
    /\ deposit.count < MaxReconciliations
    /\ deposit' = [deposit EXCEPT
                      !.op = "reconciled",
                      !.count = @ + 1,
                      !.call = [initialBalance |-> deposit.balance,
                                latestDepositNonce |-> deposit.latestDepositNonce,
                                balanceRes |-> balanceRes,
                                latestDepositARes |-> IF balanceRes.isError THEN NotRead ELSE latestDepositARes],
                      !.result = ReconcileDeposit(deposit.balance, deposit.latestDepositNonce,
                                                  deposit.lockedBalance, balanceRes, latestDepositARes)]
    /\ UNCHANGED <<calls, handlers, posted, invoked, todo, signing, feeCall, transferCall, resultCall, grpc>>

\* the deposit update made from a successful result is applied: the balance of
\* the asset and latestDepositNonce are replaced by the result's
ApplyDeposit ==
    /\ deposit.op = "reconciled"
    /\ ~deposit.result.isError
    /\ deposit' = [deposit EXCEPT
                      !.op = "applied",
                      !.balance = deposit.result.value.balance,
                      !.latestDepositNonce = deposit.result.value.latestDepositNonce]
    /\ UNCHANGED <<calls, handlers, posted, invoked, todo, signing, feeCall, transferCall, resultCall, grpc>>

ReconcileAny == \E b \in OnchainBalanceResults, d \in LatestDepositResults : Reconcile(b, d)

NextDeposit == ReconcileAny \/ ApplyDeposit

SpecDeposit == InitDeposit /\ [][NextDeposit]_vars

\* ------------------------------------------------------------- router fees
Mainnet == 1
ChainIds == {Mainnet, 137}
AddressZero == "0x0000000000000000000000000000000000000000"
Token == "0xToken"
AssetIds == {AddressZero, Token}
RouterIdentifier == "router"

\* GAS_ESTIMATES and REDUCED_GAS_PRICE of the types package, scaled down
GasEstimates ==
    [createChannel |-> 20, withdraw |-> 9, depositBob |-> 5,
     createChannelAndDepositAlice |-> 23, depositAlice |-> 8]
ReducedGasPrice == 1

NotDeployed == "0x"
Deployed == "0x6080"

\* a channel as the fee functions read it: the router's role follows from the
\* two identifiers, balance is the balance of the channel's asset
FeeChannel(channelAddress, chainId, routerIs, assetId, routerBalance) ==
    [channelAddress |-> channelAddress,
     networkContext |-> [chainId |-> chainId],
     aliceIdentifier |-> IF routerIs = "alice" THEN RouterIdentifier ELSE "peerA",
     bobIdentifier |-> IF routerIs = "bob" THEN RouterIdentifier ELSE "peerB",
     assetId |-> assetId,
     balance |-> [alice |-> IF routerIs = "alice" THEN routerBalance ELSE 0,
                  bob |-> IF routerIs = "bob" THEN routerBalance ELSE 0]]

\* getParticipant of the utils package
GetParticipant(channel, publicIdentifier) ==
    IF channel.aliceIdentifier = publicIdentifier THEN "alice"
    ELSE IF channel.bobIdentifier = publicIdentifier THEN "bob"
    ELSE "undefined"

\* getBalanceForAssetId of the utils package
GetBalanceForAssetId(channel, assetId, participant) ==
    IF assetId = channel.assetId THEN channel.balance[participant] ELSE 0

\* getSwappedAmount of ./swap: the configured rate of the pair, one way and
\* back, or an error when the pair is not configured
GetSwappedAmount(env, amount, forward) ==
    IF env.swapRate = 0 THEN ResultFail("SwapInvalid")
    ELSE ResultOk(IF forward THEN amount * env.swapRate ELSE amount \div env.swapRate)

\* inverse and calculateExchangeWad of the utils package, for two assets of
\* the same decimals: the amount in wei at the token's price
CalculateExchangeWad(feeWithGasPrice, tokensPerEth) == feeWithGasPrice * tokensPerEth

\* what a function returns, and the calls it made to its collaborators
Outcome(res, log) == [res |-> res, log |-> log]

\* normalizeFee(fee, desiredFeeAssetId, chainId, ethReader, logger, gasPriceOverride);
\* gasPriceOverride 0 stands for none given, tag names the call in the log
NormalizeFee(env, tag, fee, desiredFeeAssetId, chainId, gasPriceOverride) ==
    LET log0 == <<tag>>
    IN  IF chainId # Mainnet THEN Outcome(ResultFail("ChainError"), log0)
        ELSE LET log1 == IF gasPriceOverride = 0 THEN Append(log0, "getGasPrice") ELSE log0
             IN  IF gasPriceOverride = 0 /\ env.gasPrice.isError
                 THEN Outcome(ResultFail("ChainError"), log1)
                 ELSE LET gasPrice == IF gasPriceOverride = 0 THEN env.gasPrice.value ELSE gasPriceOverride
                          feeWithGasPrice == fee * gasPrice
                      IN  IF desiredFeeAssetId = AddressZero THEN Outcome(ResultOk(feeWithGasPrice), log1)
                          ELSE LET log2 == Append(log1, "getExchangeRateInEth")
                               IN  IF env.exchangeRate.isError
                                   THEN Outcome(ResultFail(env.exchangeRate.error), log2)
                                   ELSE IF env.decimalsThrow
                                   THEN Outcome(ResultFail("ExchangeRateError"), Append(log2, "getDecimals"))
                                   ELSE Outcome(ResultOk(CalculateExchangeWad(feeWithGasPrice,
                                                                              env.exchangeRate.value)),
                                                Append(log2, "getDecimals"))

\* the sender-channel fee: a reclaim above reclaimThreshold, a
\* collateralization below collateralizeThreshold, nothing between
FromChannelFee(finalFromBalance, fromProfile, participantFromChannel, fromChannelCode) ==
    IF finalFromBalance > fromProfile.reclaimThreshold
    THEN IF fromChannelCode = NotDeployed
         THEN GasEstimates.createChannel + GasEstimates.withdraw
         ELSE GasEstimates.withdraw
    ELSE IF finalFromBalance < fromProfile.collateralizeThreshold
    THEN IF participantFromChannel = "bob" THEN GasEstimates.depositBob
         ELSE IF fromChannelCode = NotDeployed THEN GasEstimates.createChannelAndDepositAlice
         ELSE GasEstimates.depositAlice
    ELSE 0

\* a receiver channel that counts as collateralized only above the amount
CollateralizedStrictly(routerBalance, converted) == routerBalance > converted

\* BigNumber.from(routerBalance).gte(converted.getValue())
Collateralized(routerBalance, converted) == routerBalance >= converted

\* { [fromChannel.channelAddress]: fromChannelFee, [toChannel.channelAddress]: toChannelFee }:
\* the later key wins when the two addresses are one
GasFees(fromChannel, fromChannelFee, toChannel, toChannelFee) ==
    [a \in {fromChannel.channelAddress, toChannel.channelAddress} |->
        IF a = toChannel.channelAddress THEN toChannelFee ELSE fromChannelFee]

CalculateEstimatedGasFee(env, amountToSend, toAssetId, fromAssetId, fromChannel, toChannel, routerPublicIdentifier) ==
    LET participantFromChannel == GetParticipant(fromChannel, routerPublicIdentifier)
    IN  IF participantFromChannel = "undefined" THEN Outcome(ResultFail("ChannelError"), <<>>)
        ELSE
        LET finalFromBalance ==
                amountToSend + GetBalanceForAssetId(fromChannel, fromAssetId, participantFromChannel)
            fromChannelCode == env.code[fromChannel.channelAddress]
            log1 == <<"getCode:from">>
        IN  IF fromChannelCode.isError THEN Outcome(ResultFail("ChainError"), log1)
            ELSE
            LET log2 == Append(log1, "getRebalanceProfile")
            IN  IF env.profile.isError THEN Outcome(ResultFail("ConfigError"), log2)
                ELSE
                LET fromChannelFee == FromChannelFee(finalFromBalance, env.profile.value,
                                                     participantFromChannel, fromChannelCode.value)
                    participantToChannel == GetParticipant(toChannel, routerPublicIdentifier)
                IN  IF participantToChannel = "undefined" THEN Outcome(ResultFail("ChannelError"), log2)
                    ELSE
                    LET routerBalance == GetBalanceForAssetId(toChannel, toAssetId, participantToChannel)
                        converted == GetSwappedAmount(env, amountToSend, TRUE)
                        log3 == Append(log2, "getSwappedAmount")
                    IN  IF converted.isError THEN Outcome(ResultFail("ConversionError"), log3)
                        ELSE IF Collateralized(routerBalance, converted.value)
                        THEN Outcome(ResultOk(GasFees(fromChannel, fromChannelFee, toChannel, 0)), log3)
                        ELSE IF participantToChannel = "bob"
                        THEN Outcome(ResultOk(GasFees(fromChannel, fromChannelFee, toChannel,
                                                      GasEstimates.depositBob)), log3)
                        ELSE
                        LET toChannelCode == env.code[toChannel.channelAddress]
                            log4 == Append(log3, "getCode:to")
                        IN  IF toChannelCode.isError THEN Outcome(ResultFail("ChainError"), log4)
                            ELSE Outcome(ResultOk(GasFees(fromChannel, fromChannelFee, toChannel,
                                             IF toChannelCode.value = NotDeployed
                                             THEN GasEstimates.createChannelAndDepositAlice
                                             ELSE GasEstimates.depositAlice)), log4)

\* a subsidy that never spares the gas estimation
NeverFullySubsidized(gasSubsidyPercentage) == FALSE

\* gasSubsidyPercentage === 100: gas is fully subsidized
FullySubsidized(gasSubsidyPercentage) == gasSubsidyPercentage = 100

\* static fees that leave the flat fee out
StaticFeesWithoutFlatFee(transferAmount, percentageFee, flatFee) ==
    (transferAmount * percentageFee) \div 100

\* staticFees: transferAmount.mul(percentageFee).div(100).add(flatFee)
StaticFees(transferAmount, percentageFee, flatFee) ==
    ((transferAmount * percentageFee) \div 100) + flatFee

\* dynamic: normalizedGasFees.mul(100 - gasSubsidyPercentage).div(100)
Dynamic(normalizedGasFees, gasSubsidyPercentage) ==
    (normalizedGasFees * (100 - gasSubsidyPercentage)) \div 100

\* a reclaim fee normalized whatever the chain of the sender channel is
NormalizedReclaimOnAnyChain(env, gasFees, fromChannel, fromAssetId) ==
    NormalizeFee(env, "normalizeFee:reclaim", gasFees[fromChannel.channelAddress], fromAssetId,
                 fromChannel.networkContext.chainId, ReducedGasPrice)

\* normalizedReclaimFromAsset
NormalizedReclaimFromAsset(env, gasFees, fromChannel, fromAssetId) ==
    IF fromChannel.networkContext.chainId = Mainnet
    THEN NormalizeFee(env, "normalizeFee:reclaim", gasFees[fromChannel.channelAddress], fromAssetId,
                      fromChannel.networkContext.chainId, ReducedGasPrice)
    ELSE Outcome(ResultOk(0), <<>>)

\* normalizedCollateralToAsset
NormalizedCollateralToAsset(env, gasFees, toChannel, toAssetId) ==
    IF toChannel.networkContext.chainId = Mainnet
    THEN NormalizeFee(env, "normalizeFee:collateral", gasFees[toChannel.channelAddress], toAssetId,
                      toChannel.networkContext.chainId, 0)
    ELSE Outcome(ResultOk(0), <<>>)

\* the locals of calculateFeeAmount a return leaves behind
FeeLocals(staticFees, gasFees, reclaim, collateralToAsset, collateralFromAsset) ==
    [staticFees |-> staticFees, gasFees |-> gasFees, normalizedReclaimFromAsset |-> reclaim,
     normalizedCollateralToAsset |-> collateralToAsset,
     normalizedCollateralFromAsset |-> collateralFromAsset]

FeeOutcome(res, log, locals) == [res |-> res, log |-> log, locals |-> locals]

NoGasFees == <<>>

CalculateFeeAmount(env, transferAmount, fromAssetId, fromChannel, toAssetId, toChannel, routerPublicIdentifier) ==
    LET toChainId == toChannel.networkContext.chainId
        fromChainId == fromChannel.networkContext.chainId
        fees == env.swapFees
        none == FeeLocals(0, NoGasFees, NotRead, NotRead, NotRead)
    IN  IF fees.isError THEN FeeOutcome(ResultFail("ConfigError"), <<>>, none)
        ELSE
        LET flatFee == fees.value.flatFee
            percentageFee == fees.value.percentageFee
            gasSubsidyPercentage == fees.value.gasSubsidyPercentage
            isSwap == fromChainId # toChainId \/ fromAssetId # toAssetId
            staticFees == StaticFees(transferAmount, percentageFee, flatFee)
            static == FeeLocals(staticFees, NoGasFees, NotRead, NotRead, NotRead)
        IN  IF FullySubsidized(gasSubsidyPercentage) THEN FeeOutcome(ResultOk(staticFees), <<>>, static)
            ELSE
            LET gasFeesRes == CalculateEstimatedGasFee(env, transferAmount, toAssetId, fromAssetId,
                                                       fromChannel, toChannel, routerPublicIdentifier)
                log1 == <<"calculateEstimatedGasFee">> \o gasFeesRes.log
            IN  IF gasFeesRes.res.isError THEN FeeOutcome(ResultFail(gasFeesRes.res.error), log1, static)
                ELSE
                LET gasFees == gasFeesRes.res.value
                    reclaim == NormalizedReclaimFromAsset(env, gasFees, fromChannel, fromAssetId)
                    collateral == NormalizedCollateralToAsset(env, gasFees, toChannel, toAssetId)
                    log2 == log1 \o reclaim.log \o collateral.log
                IN  IF reclaim.res.isError \/ collateral.res.isError
                    THEN FeeOutcome(ResultFail("ExchangeRateError"), log2,
                                    FeeLocals(staticFees, gasFees, reclaim.res, collateral.res, NotRead))
                    ELSE
                    LET collateralFromAsset ==
                            IF isSwap THEN GetSwappedAmount(env, collateral.res.value, FALSE)
                            ELSE ResultOk(collateral.res.value)
                        log3 == IF isSwap THEN Append(log2, "getSwappedAmount") ELSE log2
                        locals == FeeLocals(staticFees, gasFees, reclaim.res, collateral.res,
                                            collateralFromAsset)
                    IN  IF collateralFromAsset.isError
                        THEN FeeOutcome(ResultFail("ConversionError"), log3, locals)
                        ELSE LET normalizedGasFees == reclaim.res.value + collateralFromAsset.value
                                 dynamic == Dynamic(normalizedGasFees, gasSubsidyPercentage)
                                 totalFees == staticFees + dynamic
                             IN  FeeOutcome(ResultOk(totalFees), log3, locals)

\* the arguments and the collaborators' answers drawn for calculateFeeAmount
TransferAmounts == {1, 100}
SwapFeesResults ==
    {ResultOk([flatFee |-> 5, percentageFee |-> 10, gasSubsidyPercentage |-> g]) : g \in {0, 50, 100}}
    \cup {ResultOk([flatFee |-> 0, percentageFee |-> 0, gasSubsidyPercentage |-> 100]),
          ResultFail("ConfigError")}
RebalanceProfileResults ==
    {ResultOk([reclaimThreshold |-> 500, collateralizeThreshold |-> 50]), ResultFail("ConfigError")}
CodeResults ==
    {[chFrom |-> ResultOk(NotDeployed), chTo |-> ResultOk(NotDeployed)],
     [chFrom |-> ResultOk(Deployed), chTo |-> ResultOk(Deployed)],
     [chFrom |-> ResultFail("ChainError"), chTo |-> ResultOk(Deployed)]}
\* the gas price read, the rate read, and whether getDecimals throws
OracleResults ==
    {[gasPrice |-> ResultOk(2), exchangeRate |-> ResultOk(3), decimalsThrow |-> FALSE],
     [gasPrice |-> ResultFail("ChainError"), exchangeRate |-> ResultOk(3), decimalsThrow |-> FALSE],
     [gasPrice |-> ResultOk(2), exchangeRate |-> ResultFail("ExchangeRateError"), decimalsThrow |-> FALSE],
     [gasPrice |-> ResultOk(2), exchangeRate |-> ResultOk(3), decimalsThrow |-> TRUE]}
\* 0 stands for a pair that is not configured
SwapRates == {0, 1, 2}
RouterRoles == {<<"alice", "alice">>, <<"bob", "bob">>, <<"alice", "bob">>}
RouterBalancePairs == {<<0, 0>>, <<1000, 0>>, <<0, 1000>>}

FeeEnv(swapFees, code, profile, swapRate, oracle) ==
    [swapFees |-> swapFees, code |-> code, profile |-> profile, swapRate |-> swapRate,
     gasPrice |-> oracle.gasPrice, exchangeRate |-> oracle.exchangeRate,
     decimalsThrow |-> oracle.decimalsThrow]

NoFeeOutcome == FeeOutcome(NoResult, <<>>, FeeLocals(0, NoGasFees, NotRead, NotRead, NotRead))

MessagingIdle ==
    /\ calls = <<>>
    /\ handlers = <<>>
    /\ posted = <<>>
    /\ invoked = <<>>
    /\ todo = {}

InitFees ==
    /\ MessagingIdle
    /\ signing = NoSigning
    /\ deposit = NoDeposit
    /\ transferCall = NoTransfer
    /\ resultCall = NoResultCall
    /\ grpc = NoGrpc
    /\ \E amount \in TransferAmounts, fromAssetId \in AssetIds, toAssetId \in AssetIds,
          fromChainId \in ChainIds, toChainId \in ChainIds, roles \in RouterRoles,
          balances \in RouterBalancePairs, swapFees \in SwapFeesResults, code \in CodeResults,
          profile \in RebalanceProfileResults, swapRate \in SwapRates, oracle \in OracleResults :
          /\ (fromChainId = toChainId /\ fromAssetId = toAssetId) => swapRate \in {0, 1}
          /\ feeCall = [op |-> "args",
                        env |-> FeeEnv(swapFees, code, profile, swapRate, oracle),
                        transferAmount |-> amount,
                        fromAssetId |-> fromAssetId,
                        fromChannel |-> FeeChannel("chFrom", fromChainId, roles[1], fromAssetId, balances[1]),
                        toAssetId |-> toAssetId,
                        toChannel |-> FeeChannel("chTo", toChainId, roles[2], toAssetId, balances[2]),
                        outcome |-> NoFeeOutcome]

\* calculateFeeAmount(transferAmount, fromAssetId, fromChannel, toAssetId, toChannel, ...)
CalculateFee ==
    /\ feeCall.op = "args"
    /\ feeCall' = [feeCall EXCEPT
                      !.op = "returned",
                      !.outcome = CalculateFeeAmount(feeCall.env, feeCall.transferAmount, feeCall.fromAssetId,
                                                     feeCall.fromChannel, feeCall.toAssetId, feeCall.toChannel,
                                                     RouterIdentifier)]
    /\ UNCHANGED <<calls, handlers, posted, invoked, todo, signing, deposit, transferCall, resultCall, grpc>>

NextFees == CalculateFee

SpecFees == InitFees /\ [][NextFees]_vars

\* ------------------------------------------------- router gas fee estimate
\* the router in either channel as alice, as bob, or not in it
GasFeeRouterRoles == {"alice", "bob", "none"}
FromRouterBalances == {0, 1000}
ToRouterBalances == {0, 100, 1000}
\* a usual profile, and one whose reclaimThreshold is below its
\* collateralizeThreshold
GasFeeProfileResults ==
    {ResultOk([reclaimThreshold |-> 500, collateralizeThreshold |-> 50]),
     ResultOk([reclaimThreshold |-> 50, collateralizeThreshold |-> 500]),
     ResultFail("ConfigError")}
GetCodeResults == {ResultOk(NotDeployed), ResultOk(Deployed), ResultFail("ChainError")}
GasFeeOracle == [gasPrice |-> ResultOk(2), exchangeRate |-> ResultOk(3), decimalsThrow |-> FALSE]
NoSwapFees == ResultFail("ConfigError")

InitGasFee ==
    /\ MessagingIdle
    /\ signing = NoSigning
    /\ deposit = NoDeposit
    /\ transferCall = NoTransfer
    /\ resultCall = NoResultCall
    /\ grpc = NoGrpc
    /\ \E amount \in TransferAmounts, fromAssetId \in AssetIds, toAssetId \in AssetIds,
          fromRole \in GasFeeRouterRoles, toRole \in GasFeeRouterRoles,
          fromBalance \in FromRouterBalances, toBalance \in ToRouterBalances,
          fromCode \in GetCodeResults, toCode \in GetCodeResults,
          profile \in GasFeeProfileResults, swapRate \in SwapRates :
          feeCall = [op |-> "estimate",
                     env |-> FeeEnv(NoSwapFees, [chFrom |-> fromCode, chTo |-> toCode], profile, swapRate,
                                    GasFeeOracle),
                     amountToSend |-> amount,
                     fromAssetId |-> fromAssetId,
                     fromChannel |-> FeeChannel("chFrom", Mainnet, fromRole, fromAssetId, fromBalance),
                     toAssetId |-> toAssetId,
                     toChannel |-> FeeChannel("chTo", Mainnet, toRole, toAssetId, toBalance),
                     outcome |-> Outcome(NoResult, <<>>)]

\* calculateEstimatedGasFee(amountToSend, toAssetId, fromAssetId, fromChannel, toChannel, ...)
EstimateGasFee ==
    /\ feeCall.op = "estimate"
    /\ feeCall' = [feeCall EXCEPT
                      !.op = "estimated",
                      !.outcome = CalculateEstimatedGasFee(feeCall.env, feeCall.amountToSend, feeCall.toAssetId,
                                                           feeCall.fromAssetId, feeCall.fromChannel,
                                                           feeCall.toChannel, RouterIdentifier)]
    /\ UNCHANGED <<calls, handlers, posted, invoked, todo, signing, deposit, transferCall, resultCall, grpc>>

NextGasFee == EstimateGasFee

SpecGasFee == InitGasFee /\ [][NextGasFee]_vars

\* ------------------------------------------------------------ Result states
\* the values and the errors a Result is built from
ResultValues == {"value", "other value", NoError, "0"}
ResultErrors == {"Error: failed", "FeeError"} \cup FalsyValues
ResultJsons == [isError : BOOLEAN, value : ResultValues, error : ResultErrors]

\* Result.fromJson(json)
ResultFromJson(json) == IF json.isError THEN ResultFail(json.error) ELSE ResultOk(json.value)

\* getValue(): the value, or the Error it throws
GetValue(res) ==
    IF res.isError THEN [threw |-> TRUE, value |-> NoError] ELSE [threw |-> FALSE, value |-> res.value]

\* getError()
GetError(res) == IF res.isError THEN res.error ELSE NoError

InitResult ==
    /\ MessagingIdle
    /\ signing = NoSigning
    /\ deposit = NoDeposit
    /\ feeCall = NoFee
    /\ transferCall = NoTransfer
    /\ grpc = NoGrpc
    /\ resultCall = [op |-> "new"]

BuiltResult(by, arg, res) == [op |-> "built", by |-> by, arg |-> arg, res |-> res]

FrameResult == UNCHANGED <<calls, handlers, posted, invoked, todo, signing, deposit, feeCall, transferCall, grpc>>

\* Result.ok(result)
Ok ==
    /\ resultCall.op = "new"
    /\ \E v \in ResultValues :
          resultCall' = BuiltResult("ok", [isError |-> FALSE, value |-> v, error |-> NoError], ResultOk(v))
    /\ FrameResult

\* Result.fail(error)
Fail ==
    /\ resultCall.op = "new"
    /\ \E e \in ResultErrors :
          resultCall' = BuiltResult("fail", [isError |-> TRUE, value |-> NoError, error |-> e], ResultFail(e))
    /\ FrameResult

\* Result.fromJson(json)
FromJson ==
    /\ resultCall.op = "new"
    /\ \E json \in ResultJsons : resultCall' = BuiltResult("fromJson", json, ResultFromJson(json))
    /\ FrameResult

\* getValue() and getError() on the Result built
Access ==
    /\ resultCall.op = "built"
    /\ resultCall' = [op |-> "accessed", by |-> resultCall.by, arg |-> resultCall.arg, res |-> resultCall.res,
                      getValue |-> GetValue(resultCall.res), getError |-> GetError(resultCall.res)]
    /\ FrameResult

NextResult == Ok \/ Fail \/ FromJson \/ Access

SpecResult == InitResult /\ [][NextResult]_vars

\* ------------------------------------------------------- transfer programs
TransferId == "0xtransferId"
TransferDefinitionAddress == "0xHashlock"
TransferEncodings == <<"tuple(bytes32 lockHash)", "tuple(bytes32 preImage)">>
TransferResolvers == {"preImage", "wrong preImage"}
FullTransferState(resolver) ==
    [transferId         |-> TransferId,
     transferDefinition |-> TransferDefinitionAddress,
     transferEncodings  |-> TransferEncodings,
     transferState      |-> [lockHash |-> "hash(preImage)"],
     transferResolver   |-> [preImage |-> resolver]]

\* the bytecode argument: left out, an empty string, or the program's code
ProgramBytecode == [kind |-> "bytecode"]
Bytecodes == {Undefined, EmptyString, ProgramBytecode}

\* a uint256 as the ABI decoder hands it over: a BigNumber object
DecodedUint(n) == [isBigNumber |-> TRUE, value |-> n]

\* defaultAbiCoder.encode([type], [value])
AbiEncode(type, value) == [type |-> type, value |-> value]
\* contract.interface.encodeFunctionData(fn, args)
EncodeFunctionData(fn, args) == [fn |-> fn, args |-> args]

\* what the program named by transferDefinition computes
ProgramCreate(env, encodedState) == env.accepts
ProgramResolve(env, encodedState, encodedResolver) ==
    IF encodedResolver.value.preImage = "preImage"
    THEN [to |-> Participants, amount |-> <<DecodedUint(0), DecodedUint(env.locked)>>]
    ELSE [to |-> Participants, amount |-> <<DecodedUint(env.locked), DecodedUint(0)>>]
ProgramOutput(env, data) ==
    IF data.fn = "create" THEN [fn |-> "create", ret |-> <<ProgramCreate(env, data.args[1])>>]
    ELSE [fn |-> "resolve", ret |-> <<ProgramResolve(env, data.args[1], data.args[2])>>]

\* execEvmBytecode(bytecode, payload): the output bytes, or what evm.exec throws
ExecEvmBytecode(env, bytecode, payload) ==
    CASE env.local = "execThrows"   -> [threw |-> TRUE, output |-> [fn |-> "none", ret |-> <<>>]]
      [] env.local = "decodeThrows" -> [threw |-> FALSE, output |-> [fn |-> "none", ret |-> <<>>]]
      [] OTHER                      -> [threw |-> FALSE, output |-> ProgramOutput(env, payload)]

\* contract.interface.decodeFunctionResult(fn, output): throws on bytes that
\* are not a result of fn
DecodeFunctionResult(fn, output) ==
    IF output.fn = fn THEN [threw |-> FALSE, ret |-> output.ret] ELSE [threw |-> TRUE, ret |-> <<>>]

\* contract.create(...) / contract.resolve(...): a call to the code at the
\* contract's address, rejected where the program is not deployed
ContractCall(env, address, data) ==
    IF address \in env.deployed
    THEN [rejected |-> FALSE, ret |-> ProgramOutput(env, data).ret]
    ELSE [rejected |-> TRUE, ret |-> <<>>]

\* if (bytecode)
BytecodeSupplied(bytecode) == bytecode.kind \notin {Undefined.kind, EmptyString.kind}

\* the try block: execute the bytecode and decode its output
LocalAttempt(env, fn, bytecode, data) ==
    LET exec    == ExecEvmBytecode(env, bytecode, data)
        decoded == DecodeFunctionResult(fn, exec.output)
    IN  IF ~BytecodeSupplied(bytecode) THEN [ran |-> FALSE, threw |-> FALSE, ret |-> <<>>]
        ELSE IF exec.threw \/ decoded.threw THEN [ran |-> TRUE, threw |-> TRUE, ret |-> <<>>]
        ELSE [ran |-> TRUE, threw |-> FALSE, ret |-> decoded.ret]

\* the try block returns and the catch swallows what it threw
TakenLocallyWheneverRan(attempt) == attempt.ran
TakenLocally(attempt) == attempt.ran /\ ~attempt.threw

\* the steps of one call, in order
AttemptLog(attempt) ==
    IF ~attempt.ran THEN <<>>
    ELSE IF attempt.threw THEN <<"execEvmBytecode", "logger.debug">>
    ELSE <<"execEvmBytecode">>

TransferReturned(value, contract, log) ==
    [status |-> "returned", value |-> value, contract |-> contract, log |-> log]
TransferRejected(value, contract, log) ==
    [status |-> "rejected", value |-> value, contract |-> contract, log |-> log]

\* new Contract(...) of create and of resolve
CreateContract(transfer) == transfer.transferId
ResolveContract(transfer) == transfer.transferDefinition

\* ret.amount of the local mode, and ret.amount.map((a) => a.toString()) of
\* the on-chain mode
LocalAmount(amount) == amount
OnchainAmount(amount) == [i \in DOMAIN amount |-> BigNumberToString(amount[i].value)]

NoBalance == [to |-> <<>>, amount |-> <<>>]

\* create(transfer, signer, bytecode)
TransferCreate(env, transfer, bytecode) ==
    LET encodedState == AbiEncode(transfer.transferEncodings[1], transfer.transferState)
        contract     == CreateContract(transfer)
        data         == EncodeFunctionData("create", <<encodedState>>)
        attempt      == LocalAttempt(env, "create", bytecode, data)
        call         == ContractCall(env, contract, data)
    IN  IF TakenLocally(attempt)
        THEN TransferReturned(IF attempt.ret = <<>> THEN FALSE ELSE attempt.ret[1], contract, AttemptLog(attempt))
        ELSE IF call.rejected
        THEN TransferRejected(FALSE, contract, AttemptLog(attempt) \o <<"contract.create">>)
        ELSE TransferReturned(call.ret[1], contract, AttemptLog(attempt) \o <<"contract.create">>)

\* resolve(transfer, signer, bytecode)
TransferResolve(env, transfer, bytecode) ==
    LET encodedState    == AbiEncode(transfer.transferEncodings[1], transfer.transferState)
        encodedResolver == AbiEncode(transfer.transferEncodings[2], transfer.transferResolver)
        contract        == ResolveContract(transfer)
        data            == EncodeFunctionData("resolve", <<encodedState, encodedResolver>>)
        attempt         == LocalAttempt(env, "resolve", bytecode, data)
        call            == ContractCall(env, contract, data)
    IN  IF TakenLocally(attempt)
        THEN TransferReturned(IF attempt.ret = <<>> THEN NoBalance
                              ELSE [to |-> attempt.ret[1].to, amount |-> LocalAmount(attempt.ret[1].amount)],
                              contract, AttemptLog(attempt))
        ELSE IF call.rejected
        THEN TransferRejected(NoBalance, contract, AttemptLog(attempt) \o <<"contract.resolve">>)
        ELSE TransferReturned([to |-> call.ret[1].to, amount |-> OnchainAmount(call.ret[1].amount)],
                              contract, AttemptLog(attempt) \o <<"contract.resolve">>)

\* the program's verdict, how the local execution goes, and where the program
\* is deployed
LockedAmounts == {0, 40}
TransferEnv ==
    [accepts  : BOOLEAN,
     locked   : LockedAmounts,
     local    : {"runs", "execThrows", "decodeThrows"},
     deployed : {{}, {TransferDefinitionAddress}}]

TransferFunctions == {"create", "resolve"}
NotRun == [status |-> "notRun"]

InitTransfer ==
    /\ MessagingIdle
    /\ signing = NoSigning
    /\ deposit = NoDeposit
    /\ feeCall = NoFee
    /\ resultCall = NoResultCall
    /\ grpc = NoGrpc
    /\ \E resolver \in TransferResolvers, env \in TransferEnv :
          transferCall = [op       |-> "transfer",
                          transfer |-> FullTransferState(resolver),
                          env      |-> env,
                          runs     |-> [fn \in TransferFunctions |-> [b \in Bytecodes |-> NotRun]]]

FrameTransfer == UNCHANGED <<calls, handlers, posted, invoked, todo, signing, deposit, feeCall, resultCall, grpc>>

\* one call of create, with or without bytecode
RunCreate ==
    /\ transferCall.op = "transfer"
    /\ \E bytecode \in Bytecodes :
          /\ transferCall.runs["create"][bytecode] = NotRun
          /\ transferCall' = [transferCall EXCEPT !.runs["create"][bytecode] =
                                 TransferCreate(transferCall.env, transferCall.transfer, bytecode)]
    /\ FrameTransfer

\* one call of resolve, with or without bytecode
RunResolve ==
    /\ transferCall.op = "transfer"
    /\ \E bytecode \in Bytecodes :
          /\ transferCall.runs["resolve"][bytecode] = NotRun
          /\ transferCall' = [transferCall EXCEPT !.runs["resolve"][bytecode] =
                                 TransferResolve(transferCall.env, transferCall.transfer, bytecode)]
    /\ FrameTransfer

NextTransfer == RunCreate \/ RunResolve

SpecTransfer == InitTransfer /\ [][NextTransfer]_vars

\* -------------------------------------------------------- gRPC event streams
MaxEvents == 2
MaxStreams == 2
MaxRegistrations == 2

NodeIndexes == {0, 1}
\* one event of each kind of converting stream handler: one that converts
\* the transfer, one that converts the meta
EngineEvents == {"CONDITIONAL_TRANSFER_CREATED", "SETUP"}
ChannelAddresses == {"0xChannelA", "0xChannelB"}
\* the node that holds the channel
NodeOf(channelAddress) == IF channelAddress = "0xChannelA" THEN 0 ELSE 1
Metas == {NoError, "meta"}

\* the payload a node emits for a channel at a nonce
EventPayload(name, channelAddress, nonce, meta) ==
    [name |-> name, channelAddress |-> channelAddress, nonce |-> nonce, meta |-> meta,
     activeTransferIds |-> NoError, transfer |-> [transferState |-> "state", meta |-> meta]]

\* GrpcTypes.Struct.fromJson(json)
StructFromJson(json) == [fields |-> json]
\* x ? GrpcTypes.Struct.fromJson(x) : undefined
OptionalStruct(json) == IF json = NoError THEN [fields |-> NoError] ELSE StructFromJson(json)

\* convertTransfer(transfer)
ConvertTransfer(transfer) ==
    [transferState |-> StructFromJson(transfer.transferState), meta |-> OptionalStruct(transfer.meta)]

\* the message the stream's handler writes for a payload
StreamMessage(data) ==
    CASE data.name = "CONDITIONAL_TRANSFER_CREATED" ->
             [name |-> data.name, channelAddress |-> data.channelAddress, nonce |-> data.nonce,
              meta |-> data.meta, transfer |-> ConvertTransfer(data.transfer),
              activeTransferIds |-> IF data.activeTransferIds = NoError THEN <<>> ELSE data.activeTransferIds]
      [] OTHER ->
             [name |-> data.name, channelAddress |-> data.channelAddress, nonce |-> data.nonce,
              meta |-> OptionalStruct(data.meta), transfer |-> data.transfer,
              activeTransferIds |-> data.activeTransferIds]

\* call.write(message)
WriteAhead(written, message) == <<message>> \o written
Write(written, message) == Append(written, message)

\* evts[name].post(data): every handler attached to the Evt of that name
\* runs, in the order of attachment, before post returns
EvtPost(streams, data) ==
    [i \in DOMAIN streams |->
        IF streams[i].name = data.name
        THEN [streams[i] EXCEPT !.written = Write(@, StreamMessage(data))]
        ELSE streams[i]]

\* the node's emit: one post for every handler createNode registered on it
RECURSIVE Forward(_, _, _)
Forward(streams, registrations, data) ==
    IF registrations = 0 THEN streams
    ELSE Forward(EvtPost(streams, data), registrations - 1, data)

\* the nonce of the next event of a channel
EventsOf(emitted, channelAddress) == {i \in DOMAIN emitted : emitted[i].channelAddress = channelAddress}
NextNonce(emitted, channelAddress) == Cardinality(EventsOf(emitted, channelAddress)) + 1

RECURSIVE SumOver(_, _)
SumOver(f, S) == IF S = {} THEN 0 ELSE LET x == CHOOSE y \in S : TRUE IN f[x] + SumOver(f, S \ {x})

InitGrpc ==
    /\ MessagingIdle
    /\ signing = NoSigning
    /\ deposit = NoDeposit
    /\ feeCall = NoFee
    /\ transferCall = NoTransfer
    /\ resultCall = NoResultCall
    /\ grpc = [op |-> "serving", registered |-> [index \in NodeIndexes |-> 0], streams |-> <<>>, emitted |-> <<>>]

FrameGrpc == UNCHANGED <<calls, handlers, posted, invoked, todo, signing, deposit, feeCall, transferCall, resultCall>>

\* createNode: the node of the index gets one forwarding handler per event
GrpcCreateNode ==
    /\ grpc.op = "serving"
    /\ SumOver(grpc.registered, NodeIndexes) < MaxRegistrations
    /\ \E index \in NodeIndexes : grpc' = [grpc EXCEPT !.registered[index] = @ + 1]
    /\ FrameGrpc

\* one of the stream methods: its handler is attached to the Evt of its event
AttachStream ==
    /\ grpc.op = "serving"
    /\ Len(grpc.streams) < MaxStreams
    /\ \E name \in EngineEvents :
          grpc' = [grpc EXCEPT !.streams = Append(@, [name |-> name, since |-> Len(grpc.emitted), written |-> <<>>])]
    /\ FrameGrpc

\* a created node emits the next event of a channel
Emit ==
    /\ grpc.op = "serving"
    /\ Len(grpc.emitted) < MaxEvents
    /\ \E name \in EngineEvents, channelAddress \in ChannelAddresses, meta \in Metas :
          LET data  == EventPayload(name, channelAddress, NextNonce(grpc.emitted, channelAddress), meta)
              index == NodeOf(channelAddress)
          IN  /\ grpc.registered[index] > 0
              /\ grpc' = [grpc EXCEPT !.emitted = Append(@, data),
                                      !.streams = Forward(@, grpc.registered[index], data)]
    /\ FrameGrpc

NextGrpc == GrpcCreateNode \/ AttachStream \/ Emit

SpecGrpc == InitGrpc /\ [][NextGrpc]_vars

\* ---------------------------------------------------------- gRPC node calls
Mnemonics == {"mnemonic A", "mnemonic B"}
\* call.request.mnemonic: left out, empty, or a mnemonic
RequestMnemonics == Mnemonics \cup {NoError, ""}

\* the publicIdentifier of the signer derived from a mnemonic at an index
PublicIdentifierOf(mnemonic, index) == <<mnemonic, index>>
PublicIdentifiers == {PublicIdentifierOf(m, i) : m \in Mnemonics, i \in NodeIndexes}

\* getNode(publicIdentifier): the engine of the node, or undefined
NoNode == <<NoError, 0>>
GetNode(nodes, publicIdentifier) == IF publicIdentifier \in nodes THEN publicIdentifier ELSE NoNode

\* if (!engine), and a test that finds an engine for every identifier
AlwaysAnEngine(engine) == TRUE
EngineFound(engine) == engine # NoNode

\* the query handlers, the rpc method each sends and how each converts the
\* engine's answer
QueryHandlers ==
    {"getStatus", "getRouterConfig", "getTransferState", "getActiveTransfers",
     "getTransferStateByRoutingId", "getTransferStatesByRoutingId", "getChannelState"}
RpcMethodOf(handler) ==
    CASE handler = "getStatus"                    -> "chan_getStatus"
      [] handler = "getRouterConfig"              -> "chan_getRouterConfig"
      [] handler = "getTransferState"             -> "chan_getTransferState"
      [] handler = "getActiveTransfers"           -> "chan_getActiveTransfers"
      [] handler = "getTransferStateByRoutingId"  -> "chan_getTransferStateByRoutingId"
      [] handler = "getTransferStatesByRoutingId" -> "chan_getTransferStatesByRoutingId"
      [] OTHER                                    -> "chan_getChannelState"

\* what an engine answers: a plain value, one transfer or channel or none,
\* a list of transfers
StoredTransfer == [kind |-> "transfer", transferState |-> "state", meta |-> "meta"]
StoredChannel ==
    [kind |-> "channel", channelAddress |-> "0xChannelA",
     latestUpdate |-> [type |-> "setup", details |-> [timeout |-> "86400", meta |-> NoError]]]
EngineAnswers(handler) ==
    CASE handler \in {"getStatus", "getRouterConfig"} -> {[kind |-> "plain"]}
      [] handler \in {"getTransferState", "getTransferStateByRoutingId"} -> {Undefined, StoredTransfer}
      [] handler \in {"getActiveTransfers", "getTransferStatesByRoutingId"} -> {<<>>, <<StoredTransfer>>}
      [] OTHER -> {Undefined, StoredChannel}

\* convertChannel(channel) for a channel whose latest update is a setup
ConvertChannel(channel) ==
    [channel EXCEPT !.latestUpdate.details =
        [oneofKind |-> "setupUpdateDetails",
         setupUpdateDetails |-> [timeout |-> @.timeout, meta |-> OptionalStruct(@.meta)]]]

\* the value the handler hands to its callback for the engine's answer
QueryReply(handler, res) ==
    CASE handler \in {"getStatus", "getRouterConfig"} -> res
      [] handler \in {"getTransferState", "getTransferStateByRoutingId"} ->
             IF res.kind = Undefined.kind THEN Undefined ELSE ConvertTransfer(res)
      [] handler \in {"getActiveTransfers", "getTransferStatesByRoutingId"} ->
             [fullTransferStates |-> [i \in DOMAIN res |-> ConvertTransfer(res[i])]]
      [] OTHER -> IF res.kind = Undefined.kind THEN Undefined ELSE ConvertChannel(res)

GrpcCallback(code, value) == [code |-> code, value |-> value]

\* one of the query handlers: the callbacks it made and the requests it sent
\* to the engine; a request on an engine that is undefined throws inside the
\* try block like a request that fails
QueryHandler(nodes, handler, publicIdentifier, threw, res) ==
    LET engine == GetNode(nodes, publicIdentifier)
    IN  IF ~EngineFound(engine)
        THEN [callbacks |-> <<GrpcCallback("NOT_FOUND", Undefined)>>, requests |-> <<>>]
        ELSE IF threw \/ engine = NoNode
        THEN [callbacks |-> <<GrpcCallback("UNKNOWN", Undefined)>>,
              requests |-> IF engine = NoNode THEN <<>> ELSE <<[engine |-> engine, method |-> RpcMethodOf(handler)]>>]
        ELSE [callbacks |-> <<GrpcCallback("OK", QueryReply(handler, res))>>,
              requests |-> <<[engine |-> engine, method |-> RpcMethodOf(handler)]>>]

\* call.request.mnemonic && call.request.mnemonic !== storedMnemonic
NewMnemonic(requestMnemonic, storedMnemonic) ==
    requestMnemonic \notin {NoError, ""} /\ requestMnemonic # storedMnemonic

\* the createNode handler up to its callback. store.setMnemonic is called and
\* not awaited: written tells whether its write reached the store before the
\* node was created; otherwise it is still on its way
VectorServiceCreateNode(state, index, requestMnemonic, written, createThrows) ==
    LET read      == state.stored
        reset     == NewMnemonic(requestMnemonic, read)
        mnemonic  == IF reset THEN requestMnemonic ELSE read
        nodes1    == IF reset THEN {} ELSE state.nodes
        stored1   == IF reset /\ written THEN requestMnemonic ELSE state.stored
        writing1  == IF reset /\ ~written THEN requestMnemonic ELSE state.writing
        steps1    == IF reset THEN <<"deleteNodes", "setMnemonic">> ELSE <<>>
        created   == mnemonic # NoError /\ ~createThrows
        last      == [handler |-> "createNode", index |-> index, requestMnemonic |-> requestMnemonic,
                      reset |-> reset, nodesBefore |-> state.nodes, storedBefore |-> read,
                      nodesAtCreation |-> nodes1, storedAtCreation |-> stored1,
                      created |-> created, from |-> mnemonic,
                      steps |-> IF created THEN Append(steps1, "createNode") ELSE steps1,
                      callbacks |-> IF created
                                    THEN <<GrpcCallback("OK", PublicIdentifierOf(mnemonic, index))>>
                                    ELSE IF mnemonic = NoError THEN <<>>
                                    ELSE <<GrpcCallback("INTERNAL", NoNode)>>]
    IN  [op |-> "nodes",
         stored |-> stored1,
         writing |-> writing1,
         nodes |-> IF created THEN nodes1 \cup {PublicIdentifierOf(mnemonic, index)} ELSE nodes1,
         last |-> last]

InitGrpcNodes ==
    /\ MessagingIdle
    /\ signing = NoSigning
    /\ deposit = NoDeposit
    /\ feeCall = NoFee
    /\ transferCall = NoTransfer
    /\ resultCall = NoResultCall
    /\ \E stored \in Mnemonics \cup {NoError} :
          grpc = [op |-> "nodes", stored |-> stored, writing |-> NoError, nodes |-> {},
                  last |-> [handler |-> "none"]]

\* a createNode call
CreateNode ==
    /\ grpc.op = "nodes"
    /\ \E index \in NodeIndexes, requestMnemonic \in RequestMnemonics, written \in BOOLEAN,
          createThrows \in BOOLEAN :
          grpc' = VectorServiceCreateNode(grpc, index, requestMnemonic, written, createThrows)
    /\ FrameGrpc

\* the write of a setMnemonic that was not awaited reaches the store, or fails
SetMnemonicSettles ==
    /\ grpc.op = "nodes"
    /\ grpc.writing # NoError
    /\ \E fails \in BOOLEAN :
          grpc' = [grpc EXCEPT !.writing = NoError,
                               !.stored = IF fails THEN @ ELSE grpc.writing]
    /\ FrameGrpc

\* a call of one of the query handlers
Query ==
    /\ grpc.op = "nodes"
    /\ \E handler \in QueryHandlers, publicIdentifier \in PublicIdentifiers, threw \in BOOLEAN :
          \E res \in EngineAnswers(handler) :
              grpc' = [grpc EXCEPT !.last =
                          [handler |-> handler, publicIdentifier |-> publicIdentifier,
                           found |-> publicIdentifier \in grpc.nodes, threw |-> threw, res |-> res]
                          @@ QueryHandler(grpc.nodes, handler, publicIdentifier, threw, res)]
    /\ FrameGrpc

NextGrpcNodes == CreateNode \/ SetMnemonicSettles \/ Query

SpecGrpcNodes == InitGrpcNodes /\ [][NextGrpcNodes]_vars

\* ------------------------------------------------------------------- claims

\* C1: a call completes only with a message that carries the inbox the call
\* generated, from its counterparty, to itself, sent by its counterparty.
C1_CompletesOnOwnInboxOnly ==
    \A c \in CallIds :
        Returned(c) =>
            /\ calls[c].res.inbox = calls[c].inbox
            /\ calls[c].res.from = calls[c].update.toIdentifier
            /\ calls[c].res.to = calls[c].update.fromIdentifier
            /\ calls[c].res.sentBy = calls[c].update.toIdentifier

\* C2: while two calls for two different channels are both pending, a reply
\* published on the inbox of one is never returned by the other.
C2_NoCrossDelivery ==
    [][\A c \in CallIds, d \in CallIds :
          ( /\ c # d
            /\ calls[c].update.channelAddress # calls[d].update.channelAddress
            /\ Pending(c) /\ Pending(d)
            /\ calls'[c].status = "returned" )
          => calls'[c].res.inbox # calls[d].inbox]_vars

\* C3: once a call timed out, a reply published later on its inbox is
\* returned by no call.
C3_LateReplyDiscarded ==
    [][\A c \in CallIds, d \in CallIds :
          ( /\ calls[d].timedOut
            /\ Pending(c)
            /\ calls'[c].status = "returned" )
          => calls'[c].res.inbox # calls[d].inbox]_vars

\* C4: a call whose timeout elapsed returns a failed Result carrying the
\* messaging Timeout error; it does not reject.
C4_TimeoutReturnsFailedResult ==
    \A c \in CallIds :
        calls[c].timedOut =>
            /\ calls[c].status = "returned"
            /\ calls[c].result = ResultFail(MessagingTimeout)

\* C5: a call that never got a reply published its request numRetries + 1
\* times.
C5_PublishesRetriesPlusOne ==
    \A c \in CallIds :
        calls[c].timedOut => calls[c].published = calls[c].numRetries + 1

\* C6: once a call returned the first reply published on its inbox, a later
\* reply on that inbox is delivered to no waiter.
C6_LaterRepliesReachNoWaiter ==
    [][\A c \in CallIds, d \in CallIds :
          ( /\ Returned(d)
            /\ calls[d].res.inbox = calls[d].inbox
            /\ Pending(c)
            /\ calls'[c].status = "returned" )
          => calls'[c].res.inbox # calls[d].inbox]_vars

\* C7: with cooperative responders and no loss, a call returns Result.ok
\* carrying the responder's answer to its own request.
C7_ReturnsOwnAnswer ==
    \A c \in CallIds :
        Returned(c) =>
            /\ ~calls[c].result.isError
            /\ calls[c].result.value.update = calls[c].update
            /\ calls[c].res.inbox = calls[c].inbox
            /\ calls[c].res.sentBy = calls[c].update.toIdentifier

\* C8: respondWithProtocolError(from, to, inbox, error) on the inbox of a
\* pending call from `from` to `to` makes that call return Result.fail with
\* that error.
C8_ErrorReplyFailsTheCall ==
    [][\A c \in CallIds, e \in Errors :
          ( /\ Pending(c)
            /\ RespondWithProtocolError(calls[c].update.fromIdentifier,
                                        calls[c].update.toIdentifier, calls[c].inbox, e) )
          => /\ calls'[c].status = "returned"
             /\ calls'[c].result.isError
             /\ calls'[c].result.error = e]_vars

C8_Witness ==
    \E c \in CallIds :
        /\ Returned(c)
        /\ Len(posted) = 1
        /\ posted[1].op = "error"
        /\ posted[1].msg = calls[c].res
        /\ calls[c].res.inbox = calls[c].inbox
        /\ calls[c].result.isError
        /\ calls[c].result.error = calls[c].res.data.error

\* C9: every subscriber's callback runs exactly once for each message
\* posted to its identifier, with that message's from and inbox, and never
\* for a message posted to another identifier.
InvocationsOf(h, k) == {j \in 1..Len(invoked) : invoked[j].sid = h.sid /\ invoked[j].msg = k}

C9_HandlerOncePerAddressedMessage ==
    /\ \A h \in Subscribers, k \in 1..Len(posted) :
          /\ Cardinality(InvocationsOf(h, k)) = IF posted[k].msg.to = h.id THEN 1 ELSE 0
          /\ \A j \in InvocationsOf(h, k) :
                /\ invoked[j].from = posted[k].msg.from
                /\ invoked[j].inbox = posted[k].msg.inbox
    /\ \A j \in 1..Len(invoked) :
          /\ invoked[j].msg \in 1..Len(posted)
          /\ \E h \in Subscribers : h.sid = invoked[j].sid

C9_Witness ==
    \E h \in Subscribers, k \in 1..Len(posted) :
        /\ posted[k].msg.to = h.id
        /\ Cardinality(InvocationsOf(h, k)) = 1

\* C10: every posted message carries exactly one of data.update and
\* data.error.
C10_ExactlyOneOfUpdateAndError ==
    \A k \in 1..Len(posted) :
        (posted[k].msg.data.update # NoUpdate) # (posted[k].msg.data.error # NoError)

C10_Witness ==
    \E k \in 1..Len(posted) :
        /\ posted[k].op = "error"
        /\ posted[k].msg.data.error \in Errors
        /\ posted[k].msg.data.update = NoUpdate

\* the digest the signatures of a state are made over
DigestOf(state) == HashChannelCommitment(SigningPreimage(Unsigned(state)))

\* slot i of sigs is non-empty and recovers to participants[i]
SlotRecovers(state, sigs, i) ==
    /\ i \in 1..Len(sigs)
    /\ Truthy(sigs[i])
    /\ RecoverAddressFromChannelMessage(DigestOf(state), sigs[i]) = ParticipantAt(state, i)

NonEmptySlots(sigs) == {i \in 1..Len(sigs) : sigs[i] # Undefined /\ sigs[i] # EmptyString}

\* C11: validateChannelUpdateSignatures rejects whenever a non-empty slot holds
\* a signature that does not recover to the participant of that slot, with
\* requiredSigs 1 as with 2.
C11_InvalidSlotRejected ==
    ( /\ signing.op = "validated"
      /\ \E i \in NonEmptySlots(signing.updateSignatures) :
             ~SlotRecovers(signing.state, signing.updateSignatures, i) )
    => signing.error # NoRejection

\* C12: when validateChannelUpdateSignatures(state, signatures, 2) returns no
\* error, slots 0 and 1 are both non-empty and each recovers to the participant
\* of its slot against the digest of the commitment of state.
C12_TwoRequiredMeansBothValid ==
    ( /\ signing.op = "validated"
      /\ signing.requiredSigs = 2
      /\ signing.error = NoRejection )
    => /\ SlotRecovers(signing.state, signing.updateSignatures, 1)
       /\ SlotRecovers(signing.state, signing.updateSignatures, 2)

C12_Witness ==
    /\ signing.op = "validated"
    /\ signing.requiredSigs = 2
    /\ signing.error = NoRejection

\* C13: with fewer non-empty entries than requiredSigs the function returns its
\* "signatures present" rejection, carrying the number of non-empty entries:
\* the empty string and undefined are not counted.
C13_TooFewPresentRejected ==
    ( /\ signing.op = "validated"
      /\ Cardinality(NonEmptySlots(signing.updateSignatures)) < signing.requiredSigs )
    => signing.error = OnlyPresent(Cardinality(NonEmptySlots(signing.updateSignatures)),
                                   signing.requiredSigs)

C13_Witness ==
    /\ signing.op = "validated"
    /\ signing.requiredSigs = 2
    /\ Len(signing.updateSignatures) = 2
    /\ Cardinality(NonEmptySlots(signing.updateSignatures)) = 1
    /\ \E i \in 1..2 : signing.updateSignatures[i] = EmptyString
    /\ signing.error # NoRejection

\* the entries of sigs that are the counterparty's signature of state, for a
\* signer that is a participant
CounterpartySlots(state, signer, sigs) ==
    {j \in 1..Len(sigs) :
        /\ Truthy(sigs[j])
        /\ \E k \in 1..Len(state.participants) :
              /\ state.participants[k] # signer
              /\ RecoverAddressFromChannelMessage(DigestOf(state), sigs[j]) = state.participants[k]}

SignerIsParticipant(state, signer) == \E i \in 1..Len(state.participants) : state.participants[i] = signer

\* C14: for a signer that is a participant and an update that carries a valid
\* counterparty signature, the signatures of the commitment that
\* generateSignedChannelCommitment returns pass
\* validateChannelUpdateSignatures(state, signatures, 2).
C14_GeneratedPassesValidation ==
    ( /\ signing.op = "revalidated"
      /\ signing.requiredSigs = 2
      /\ SignerIsParticipant(signing.state, signing.signer)
      /\ CounterpartySlots(signing.state, signing.signer, signing.updateSignatures) # {} )
    => signing.error = NoRejection

\* C14 amended: the same, for an update whose only non-empty entry is the
\* valid counterparty signature, so that generateSignedChannelCommitment signs.
C14_SignedPassesValidation ==
    ( /\ signing.op = "revalidated"
      /\ signing.requiredSigs = 2
      /\ SignerIsParticipant(signing.state, signing.signer)
      /\ CounterpartySlots(signing.state, signing.signer, signing.updateSignatures) # {}
      /\ Cardinality(NonEmptySlots(signing.updateSignatures)) = 1 )
    => signing.error = NoRejection

C14_Witness ==
    /\ signing.op = "revalidated"
    /\ signing.requiredSigs = 2
    /\ signing.signer = signing.state.participants[2]
    /\ CounterpartySlots(signing.state, signing.signer, signing.updateSignatures) # {}
    /\ Cardinality(NonEmptySlots(signing.updateSignatures)) = 1
    /\ signing.error = NoRejection

\* C15: the state of the commitment generateSignedChannelCommitment builds has
\* none of publicIdentifiers, networkContext and latestUpdate.
C15_OnlyCoreFields ==
    signing.op = "generated"
    => DOMAIN signing.commitment.state \cap {"publicIdentifiers", "networkContext", "latestUpdate"} = {}

\* C16: in a commitment returned after signing, for an update that held no
\* signature of the signer, a slot holds the signer's signature only if the
\* participant of that slot is the signer.
C16_OwnSignatureInOwnSlotOnly ==
    ( /\ signing.op = "generated"
      /\ SignsCommitment(signing.updateSignatures)
      /\ \A j \in NonEmptySlots(signing.updateSignatures) : signing.updateSignatures[j].signer # signing.signer )
    => \A i \in NonEmptySlots(signing.commitment.signatures) :
           signing.commitment.signatures[i].signer = signing.signer
           => ParticipantAt(signing.state, i) = signing.signer

\* the last call of reconcileDeposit returned a successful result
Reconciled == deposit.op = "reconciled" /\ ~deposit.result.isError

\* the arguments and reads of the last call, and the amounts it returned, as
\* numbers
InitialAmountOf(i) == BigNumberFrom(deposit.call.initialBalance.amount[i])
ReturnedAmountOf(i) == BigNumberFrom(deposit.result.value.balance.amount[i])
LockedBalanceRead == BigNumberFrom(deposit.lockedBalance)
OnchainBalanceRead == deposit.call.balanceRes.value
LatestDepositRead == deposit.call.latestDepositARes.value

\* C17: reconcileDeposit returns, for participant 0, the deposit's amount plus
\* the initial amount when the deposit's nonce is greater than the
\* latestDepositNonce given and the initial amount otherwise, and for
\* participant 1 the on-chain balance less participant 0's new amount less
\* lockedBalance.
C17_ReconciledAmounts ==
    Reconciled =>
        /\ ReturnedAmountOf(1) =
               IF LatestDepositRead.nonce > deposit.call.latestDepositNonce
               THEN LatestDepositRead.amount + InitialAmountOf(1)
               ELSE InitialAmountOf(1)
        /\ ReturnedAmountOf(2) = OnchainBalanceRead - ReturnedAmountOf(1) - LockedBalanceRead

C17_Witness ==
    /\ Reconciled
    /\ LatestDepositRead.nonce > deposit.call.latestDepositNonce
    /\ LatestDepositRead.amount > 0
    /\ Len(deposit.result.value.balance.amount[1].digits) = 2
    /\ deposit.result.value.balance.amount[2].negative

\* C18: the latestDepositNonce reconcileDeposit returns is never lower than the
\* latestDepositNonce it was given.
C18_NonceNeverLower ==
    Reconciled => deposit.result.value.latestDepositNonce >= deposit.call.latestDepositNonce

\* C19: every successful result of reconcileDeposit, after any sequence of
\* reconciliations and applied deposits, has amount[0] + amount[1] +
\* lockedBalance equal to the on-chain balance read.
C19_AmountsAddUpToOnchainBalance ==
    Reconciled => ReturnedAmountOf(1) + ReturnedAmountOf(2) + LockedBalanceRead = OnchainBalanceRead

C19_Witness ==
    /\ Reconciled
    /\ deposit.count = MaxReconciliations
    /\ InitialAmountOf(1) \notin InitialAmounts
    /\ LockedBalanceRead > 0
    /\ LatestDepositRead.nonce > deposit.call.latestDepositNonce

\* C20: when the deposit's nonce equals the latestDepositNonce given,
\* reconcileDeposit returns the amounts of both participants unchanged, whatever
\* on-chain balance it read.
C20_EqualNonceKeepsBothAmounts ==
    (Reconciled /\ LatestDepositRead.nonce = deposit.call.latestDepositNonce)
    => deposit.result.value.balance.amount = deposit.call.initialBalance.amount

\* C20 amended: with equal nonces participant 0's amount is returned unchanged,
\* and participant 1's is the on-chain balance less participant 0's amount less
\* lockedBalance: unchanged exactly when the on-chain balance read is the sum of
\* the two amounts and lockedBalance.
C20_EqualNonceKeepsParticipant0 ==
    (Reconciled /\ LatestDepositRead.nonce = deposit.call.latestDepositNonce)
    => /\ deposit.result.value.balance.amount[1] = deposit.call.initialBalance.amount[1]
       /\ ReturnedAmountOf(2) = OnchainBalanceRead - InitialAmountOf(1) - LockedBalanceRead
       /\ (deposit.result.value.balance.amount[2] = deposit.call.initialBalance.amount[2])
          <=> (OnchainBalanceRead = InitialAmountOf(1) + InitialAmountOf(2) + LockedBalanceRead)

C20_Witness ==
    /\ Reconciled
    /\ LatestDepositRead.nonce = deposit.call.latestDepositNonce
    /\ LatestDepositRead.amount > 0
    /\ deposit.result.value.balance.amount[2] # deposit.call.initialBalance.amount[2]

\* C26: every invocation of an onReceiveProtocolMessage callback with a
\* Result.ok carries a present update; a message that carries an error reaches
\* the callback as a failed Result.
C26_OkResultCarriesUpdate ==
    \A j \in 1..Len(invoked) :
        /\ ~invoked[j].result.isError => invoked[j].result.value.update # NoUpdate
        /\ posted[invoked[j].msg].msg.data.error # NoError => invoked[j].result.isError

\* the first failed read of the last reconcileDeposit call, if any
FailedRead ==
    IF deposit.call.balanceRes.isError THEN deposit.call.balanceRes
    ELSE deposit.call.latestDepositARes

\* C21: when getChannelOnchainBalance or getLatestDepositByAssetId returns an
\* error, reconcileDeposit returns a failed Result with that same error, and
\* with no balance and no deposit nonce in it.
C21_ReadErrorReturnedUnaltered ==
    (deposit.op = "reconciled" /\ FailedRead.isError)
    => /\ deposit.result.isError
       /\ deposit.result.error = FailedRead.error
       /\ deposit.result.value = NoResult.value

C21_Witness ==
    /\ deposit.op = "reconciled"
    /\ ~deposit.call.balanceRes.isError
    /\ deposit.call.latestDepositARes.isError
    /\ deposit.call.latestDepositARes.error # ChainError
    /\ deposit.result.isError

\* C27: both amounts reconcileDeposit returns are non-negative, whatever the
\* on-chain balance, the deposit record, the initial balance and lockedBalance.
C27_AmountsNonNegative ==
    Reconciled => ReturnedAmountOf(1) >= 0 /\ ReturnedAmountOf(2) >= 0

\* the last calculateFeeAmount call: what it returned, its configured fees,
\* whether it got as far as normalizing the gas fees, and whether a call is in
\* its log
FeeReturned == feeCall.op = "returned"
FeeSucceeded == FeeReturned /\ ~feeCall.outcome.res.isError
SwapFeesOf == feeCall.env.swapFees.value
GasFeesEstimated == FeeReturned /\ DOMAIN feeCall.outcome.locals.gasFees # {}
Logged(call) == \E i \in 1..Len(feeCall.outcome.log) : feeCall.outcome.log[i] = call
AllCollaboratorsSucceed ==
    /\ ~feeCall.env.swapFees.isError
    /\ ~feeCall.env.profile.isError
    /\ ~feeCall.env.code.chFrom.isError
    /\ ~feeCall.env.code.chTo.isError
    /\ feeCall.env.swapRate # 0
    /\ ~feeCall.env.gasPrice.isError
    /\ ~feeCall.env.exchangeRate.isError
    /\ ~feeCall.env.decimalsThrow

\* the normalized gas fees of a successful call, in the asset of the transfer
ReclaimGasFee ==
    IF SwapFeesOf.gasSubsidyPercentage = 100 THEN 0
    ELSE feeCall.outcome.locals.normalizedReclaimFromAsset.value
CollateralGasFee ==
    IF SwapFeesOf.gasSubsidyPercentage = 100 THEN 0
    ELSE feeCall.outcome.locals.normalizedCollateralFromAsset.value

\* C29: on success calculateFeeAmount returns (transferAmount * percentageFee
\* div 100) + flatFee + ((reclaim gas fee + collateral gas fee) * (100 -
\* gasSubsidyPercentage) div 100); and it succeeds whenever its collaborators
\* do, also with a total greater than transferAmount.
C29_TotalFees ==
    /\ FeeSucceeded =>
           feeCall.outcome.res.value =
               ((feeCall.transferAmount * SwapFeesOf.percentageFee) \div 100) + SwapFeesOf.flatFee
               + (((ReclaimGasFee + CollateralGasFee) * (100 - SwapFeesOf.gasSubsidyPercentage)) \div 100)
    /\ (FeeReturned /\ AllCollaboratorsSucceed) => ~feeCall.outcome.res.isError

C29_Witness ==
    /\ FeeSucceeded
    /\ SwapFeesOf.gasSubsidyPercentage = 50
    /\ SwapFeesOf.flatFee > 0
    /\ ReclaimGasFee > 0
    /\ CollateralGasFee > 0
    /\ feeCall.outcome.res.value > feeCall.transferAmount

\* C30: the reclaim gas fee is assessed only when fromChainId is 1 and the
\* collateral gas fee only when toChainId is 1: for another chain the
\* component is zero and normalizeFee is not called for it, and for chain 1 it
\* is called once the gas fees are estimated.
C30_OnlyMainnetGasFees ==
    FeeReturned =>
        /\ feeCall.fromChannel.networkContext.chainId # 1 =>
               /\ ~Logged("normalizeFee:reclaim")
               /\ GasFeesEstimated => feeCall.outcome.locals.normalizedReclaimFromAsset = ResultOk(0)
        /\ feeCall.toChannel.networkContext.chainId # 1 =>
               /\ ~Logged("normalizeFee:collateral")
               /\ GasFeesEstimated => feeCall.outcome.locals.normalizedCollateralToAsset = ResultOk(0)
        /\ (GasFeesEstimated /\ feeCall.fromChannel.networkContext.chainId = 1) => Logged("normalizeFee:reclaim")
        /\ (GasFeesEstimated /\ feeCall.toChannel.networkContext.chainId = 1) => Logged("normalizeFee:collateral")

C30_Witness ==
    /\ FeeSucceeded
    /\ GasFeesEstimated
    /\ feeCall.fromChannel.networkContext.chainId # 1
    /\ feeCall.toChannel.networkContext.chainId = 1
    /\ feeCall.outcome.locals.gasFees.chFrom > 0
    /\ ReclaimGasFee = 0
    /\ CollateralGasFee > 0

TransferRun(fn, bytecode) == transferCall.runs[fn][bytecode]
HasRun(fn, bytecode) == transferCall.op = "transfer" /\ TransferRun(fn, bytecode) # NotRun
InLog(run, step) == \E i \in 1..Len(run.log) : run.log[i] = step
OnchainStep(fn) == IF fn = "create" THEN "contract.create" ELSE "contract.resolve"
\* the outcome is the one of the call to the code at the run's contract
TakenFromChain(fn, run) ==
    /\ InLog(run, OnchainStep(fn))
    /\ IF run.contract \in transferCall.env.deployed
       THEN /\ run.status = "returned"
            /\ IF fn = "create" THEN run.value = transferCall.env.accepts ELSE run.value.to = Participants
       ELSE run.status = "rejected"

\* C22: in create and in resolve, with bytecode supplied and a local execution
\* or decoding that fails, the outcome is the one of the on-chain call; with a
\* local execution that succeeds no on-chain call is made; with no bytecode
\* the on-chain call is always made and nothing is executed locally.
C22_LocalFailureFallsBackOnChain ==
    \A fn \in TransferFunctions :
        /\ HasRun(fn, ProgramBytecode) =>
              IF transferCall.env.local = "runs"
              THEN /\ ~InLog(TransferRun(fn, ProgramBytecode), OnchainStep(fn))
                   /\ TransferRun(fn, ProgramBytecode).status = "returned"
              ELSE /\ InLog(TransferRun(fn, ProgramBytecode), "execEvmBytecode")
                   /\ TakenFromChain(fn, TransferRun(fn, ProgramBytecode))
        /\ \A none \in {Undefined, EmptyString} :
              HasRun(fn, none) =>
                  /\ ~InLog(TransferRun(fn, none), "execEvmBytecode")
                  /\ TakenFromChain(fn, TransferRun(fn, none))

C22_Witness ==
    /\ HasRun("resolve", ProgramBytecode)
    /\ HasRun("create", ProgramBytecode)
    /\ HasRun("resolve", Undefined)
    /\ transferCall.env.local = "decodeThrows"
    /\ TransferRun("resolve", ProgramBytecode).status = "returned"
    /\ InLog(TransferRun("resolve", ProgramBytecode), "contract.resolve")
    /\ InLog(TransferRun("create", ProgramBytecode), "contract.create")

\* C23: create and resolve both address the contract at the transfer's
\* transferDefinition, never at another field of the transfer.
C23_ContractAtTransferDefinition ==
    \A fn \in TransferFunctions, bytecode \in Bytecodes :
        HasRun(fn, bytecode) =>
            TransferRun(fn, bytecode).contract = transferCall.transfer.transferDefinition

\* C24: for one transfer and a well-formed program, the call with the
\* program's bytecode and the call without bytecode, where it reaches the
\* program on chain, give the same outcome: create the same boolean, resolve
\* the same balance, its amounts equal in value and in representation.
C24_LocalAndOnchainAgree ==
    \A fn \in TransferFunctions :
        ( /\ HasRun(fn, ProgramBytecode)
          /\ HasRun(fn, Undefined)
          /\ transferCall.env.local = "runs"
          /\ TransferRun(fn, Undefined).contract \in transferCall.env.deployed )
        => /\ TransferRun(fn, ProgramBytecode).status = TransferRun(fn, Undefined).status
           /\ TransferRun(fn, ProgramBytecode).value = TransferRun(fn, Undefined).value

IsWriteOf(message, data) ==
    /\ message.name = data.name
    /\ message.channelAddress = data.channelAddress
    /\ message.nonce = data.nonce
WritesOf(stream, data) == {p \in DOMAIN stream.written : IsWriteOf(stream.written[p], data)}

\* C25: a stream writes only events of its type, and of two events of its type
\* and of one channel, emitted in nonce order after the stream subscribed, it
\* writes both, every write of the first before every write of the second.
C25_StreamsKeepEmissionOrder ==
    grpc.op = "serving" =>
        \A s \in DOMAIN grpc.streams :
            LET stream == grpc.streams[s]
            IN  /\ \A p \in DOMAIN stream.written : stream.written[p].name = stream.name
                /\ \A i, j \in DOMAIN grpc.emitted :
                      ( /\ stream.since < i
                        /\ i < j
                        /\ grpc.emitted[i].name = stream.name
                        /\ grpc.emitted[j].name = stream.name
                        /\ grpc.emitted[i].channelAddress = grpc.emitted[j].channelAddress
                        /\ grpc.emitted[i].nonce < grpc.emitted[j].nonce )
                      => /\ WritesOf(stream, grpc.emitted[i]) # {}
                         /\ WritesOf(stream, grpc.emitted[j]) # {}
                         /\ \A p \in WritesOf(stream, grpc.emitted[i]), q \in WritesOf(stream, grpc.emitted[j]) : p < q

C25_Witness ==
    /\ grpc.op = "serving"
    /\ \E s \in DOMAIN grpc.streams :
          /\ Len(grpc.streams[s].written) >= 2
          /\ grpc.streams[s].written[1].channelAddress = grpc.streams[s].written[2].channelAddress
          /\ grpc.streams[s].written[1].nonce = 1
          /\ grpc.streams[s].written[2].nonce = 2
          /\ grpc.streams[s].since = 0

\* C31: with a gasSubsidyPercentage of 100 calculateFeeAmount returns the
\* static fees and calls neither the gas estimation nor the chain reader,
\* whatever the chain reader would have answered.
C31_FullSubsidySkipsChainReader ==
    ( /\ FeeReturned
      /\ ~feeCall.env.swapFees.isError
      /\ SwapFeesOf.gasSubsidyPercentage = 100 )
    => /\ feeCall.outcome.log = <<>>
       /\ ~feeCall.outcome.res.isError
       /\ feeCall.outcome.res.value =
              ((feeCall.transferAmount * SwapFeesOf.percentageFee) \div 100) + SwapFeesOf.flatFee

C31_Witness ==
    /\ FeeSucceeded
    /\ SwapFeesOf.gasSubsidyPercentage = 100
    /\ SwapFeesOf.flatFee > 0
    /\ feeCall.env.code.chFrom.isError
    /\ feeCall.env.profile.isError
    /\ feeCall.outcome.res.value > 0

\* the estimate returned, its two fees, and what its inputs say
GasFeeEstimated == feeCall.op = "estimated" /\ ~feeCall.outcome.res.isError
EstimateLogged(call) == \E i \in 1..Len(feeCall.outcome.log) : feeCall.outcome.log[i] = call
ToChannelFee == feeCall.outcome.res.value[feeCall.toChannel.channelAddress]
SenderChannelFee == feeCall.outcome.res.value[feeCall.fromChannel.channelAddress]
RouterIsBobOf(channel) == channel.bobIdentifier = RouterIdentifier
RouterBalanceIn(channel) == IF RouterIsBobOf(channel) THEN channel.balance.bob ELSE channel.balance.alice
SwappedAmount == feeCall.amountToSend * feeCall.env.swapRate
FinalFromBalance == RouterBalanceIn(feeCall.fromChannel) + feeCall.amountToSend
FromProfile == feeCall.env.profile.value
FromCodeIsEmpty == feeCall.env.code.chFrom.value = NotDeployed
ReclaimFees ==
    {IF FromCodeIsEmpty THEN GasEstimates.createChannel + GasEstimates.withdraw ELSE GasEstimates.withdraw}
CollateralizationFees ==
    {IF RouterIsBobOf(feeCall.fromChannel) THEN GasEstimates.depositBob
     ELSE IF FromCodeIsEmpty THEN GasEstimates.createChannelAndDepositAlice
     ELSE GasEstimates.depositAlice}

\* C32: the receiver-channel fee is zero when the router's balance in
\* toChannel is at least the swapped amount; otherwise depositBob for a router
\* that is bob, without a read of the channel's code, and for a router that
\* is alice createChannelAndDepositAlice with no code deployed and
\* depositAlice with code deployed.
C32_ReceiverChannelFee ==
    GasFeeEstimated =>
        IF RouterBalanceIn(feeCall.toChannel) >= SwappedAmount
        THEN ToChannelFee = 0 /\ ~EstimateLogged("getCode:to")
        ELSE IF RouterIsBobOf(feeCall.toChannel)
        THEN ToChannelFee = GasEstimates.depositBob /\ ~EstimateLogged("getCode:to")
        ELSE IF feeCall.env.code.chTo.value = NotDeployed
        THEN ToChannelFee = GasEstimates.createChannelAndDepositAlice
        ELSE ToChannelFee = GasEstimates.depositAlice

C32_Witness ==
    /\ GasFeeEstimated
    /\ RouterBalanceIn(feeCall.toChannel) = SwappedAmount
    /\ SwappedAmount > 0
    /\ ~RouterIsBobOf(feeCall.toChannel)
    /\ feeCall.env.code.chTo.isError
    /\ ToChannelFee = 0

\* C33: the sender-channel fee is a reclaim exactly when the router's balance
\* in fromChannel plus amountToSend is above reclaimThreshold, a
\* collateralization exactly when that sum is below collateralizeThreshold,
\* and zero otherwise, whatever the order of the two thresholds.
C33_SenderChannelFee ==
    GasFeeEstimated =>
        /\ FinalFromBalance > FromProfile.reclaimThreshold => SenderChannelFee \in ReclaimFees
        /\ FinalFromBalance < FromProfile.collateralizeThreshold => SenderChannelFee \in CollateralizationFees
        /\ ( /\ FinalFromBalance <= FromProfile.reclaimThreshold
             /\ FinalFromBalance >= FromProfile.collateralizeThreshold ) => SenderChannelFee = 0

LastQuery == grpc.op = "nodes" /\ grpc.last.handler \in QueryHandlers
LastCreateNode == grpc.op = "nodes" /\ grpc.last.handler = "createNode"

\* C34: a query handler calls back exactly once: NOT_FOUND, with no request
\* sent to any engine, when no node has the request's publicIdentifier; the
\* result when the engine's request succeeds; UNKNOWN when it throws.
C34_QueryCallsBackOnce ==
    LastQuery =>
        /\ Len(grpc.last.callbacks) = 1
        /\ IF ~grpc.last.found
           THEN /\ grpc.last.callbacks[1].code = "NOT_FOUND"
                /\ grpc.last.requests = <<>>
           ELSE /\ grpc.last.requests =
                       <<[engine |-> grpc.last.publicIdentifier, method |-> RpcMethodOf(grpc.last.handler)]>>
                /\ IF grpc.last.threw
                   THEN grpc.last.callbacks[1].code = "UNKNOWN"
                   ELSE /\ grpc.last.callbacks[1].code = "OK"
                        /\ grpc.last.handler \in {"getStatus", "getRouterConfig"}
                               => grpc.last.callbacks[1].value = grpc.last.res
                        /\ grpc.last.handler \in {"getActiveTransfers", "getTransferStatesByRoutingId"}
                               => Len(grpc.last.callbacks[1].value.fullTransferStates) = Len(grpc.last.res)

C34_Witness ==
    /\ LastQuery
    /\ grpc.last.handler = "getChannelState"
    /\ grpc.last.found
    /\ ~grpc.last.threw
    /\ grpc.last.res = StoredChannel
    /\ grpc.last.callbacks[1].code = "OK"
    /\ Cardinality(grpc.nodes) = 2

\* C35: a createNode call with a mnemonic that differs from the stored one
\* creates its node from the new mnemonic, after every existing node was
\* deleted and the new mnemonic was stored; a call with no mnemonic, or with
\* the stored one, leaves the existing nodes and the stored mnemonic as they
\* were.
C35_NewMnemonicStoredBeforeNode ==
    LastCreateNode =>
        IF grpc.last.requestMnemonic \in Mnemonics /\ grpc.last.requestMnemonic # grpc.last.storedBefore
        THEN grpc.last.created =>
                 /\ grpc.last.nodesAtCreation = {}
                 /\ grpc.last.storedAtCreation = grpc.last.requestMnemonic
                 /\ grpc.last.from = grpc.last.requestMnemonic
        ELSE /\ grpc.last.nodesAtCreation = grpc.last.nodesBefore
             /\ grpc.last.storedAtCreation = grpc.last.storedBefore

\* C28: a Result built by ok(v) has isError false, getValue() returns v and
\* getError() returns undefined; one built by fail(e), or by fromJson of a
\* JSON whose isError is true, has isError true, getError() returns e and
\* getValue() throws, whatever e is.
C28_ResultHasOneOfTwoStates ==
    resultCall.op = "accessed" =>
        IF resultCall.arg.isError
        THEN /\ resultCall.res.isError
             /\ resultCall.getError = resultCall.arg.error
             /\ resultCall.getValue.threw
        ELSE /\ ~resultCall.res.isError
             /\ ~resultCall.getValue.threw
             /\ resultCall.getValue.value = resultCall.arg.value
             /\ resultCall.getError = NoError

====
